---- MODULE Spec2Model ----
(***************************************************************************)
(* Model of the Ubuntu 20.04 STIG remediation engine                       *)
(* (src/ubuntu20_stig_v2r3_enhanced.py): the RecoveryManager that          *)
(* snapshots and restores critical files and directories, and the          *)
(* orchestrator UBUNTU20STIGRemediation.run that gates, applies the        *)
(* severity tiers, checks the error budget, validates and rolls back.      *)
(***************************************************************************)
EXTENDS Integers, Sequences, FiniteSets, TLC

\* ------------------------------------------------------------------------
\* Bounds
\* ------------------------------------------------------------------------
NumFiles == 2        \* how many entries of critical_files are modelled
NumDirs == 1         \* how many entries of critical_dirs are modelled
NumEntries == 2      \* entry names inside a directory
NumContents == 2     \* distinct file contents (1 = original, 2 = changed)
MaxEdits == 1        \* modifications between create and restore
MaxErrPerControl == 6 \* errors one manager can add to its error list
MaxErrors == 12      \* errors counted in one run

\* ------------------------------------------------------------------------
\* The file system
\* ------------------------------------------------------------------------
AllCriticalFiles ==
    << "/etc/ssh/sshd_config", "/etc/pam.d/common-auth",
       "/etc/pam.d/common-password", "/etc/pam.d/common-account",
       "/etc/pam.d/common-session", "/etc/security/pwquality.conf",
       "/etc/security/faillock.conf", "/etc/sudoers", "/etc/login.defs",
       "/etc/sysctl.conf", "/etc/default/grub", "/etc/audit/auditd.conf" >>

AllCriticalDirs ==
    << "/etc/sysctl.d/", "/etc/audit/rules.d/", "/etc/sudoers.d/",
       "/etc/modprobe.d/", "/etc/systemd/system/" >>

Min(a, b) == IF a < b THEN a ELSE b

critical_files == SubSeq(AllCriticalFiles, 1, Min(NumFiles, Len(AllCriticalFiles)))

critical_dirs == SubSeq(AllCriticalDirs, 1, Min(NumDirs, Len(AllCriticalDirs)))

Range(s) == { s[i] : i \in 1..Len(s) }

\* Paths the recovery point never captures: the banner file, a file whose
\* permissions are changed by FilePermissionsManager, and the per-file
\* backup copies that backup_file leaves next to the originals.
BannerFile == "/etc/issue"
PasswdFile == "/etc/passwd"

\* backup_file: "<filepath>.stig-v2r3-backup-<time>"
BackupCopyOf ==
    [p \in { AllCriticalFiles[1], AllCriticalFiles[2] } |->
        IF p = AllCriticalFiles[1]
        THEN "/etc/ssh/sshd_config.stig-v2r3-backup"
        ELSE "/etc/pam.d/common-auth.stig-v2r3-backup"]

BackupCopies == { BackupCopyOf[p] : p \in DOMAIN BackupCopyOf }

OtherFiles == { BannerFile, PasswdFile } \cup BackupCopies

FilePaths == Range(critical_files) \cup OtherFiles

DirPaths == Range(critical_dirs)

EntryNames == 1..NumEntries

\* A directory entry: absent, a regular file with a content, or a symbolic
\* link whose target currently reads as data (0: the link dangles).
NoEntry == [kind |-> "none", data |-> 0]

FileEntry(c) == [kind |-> "file", data |-> c]

LinkEntry(c) == [kind |-> "link", data |-> c]

EntryVals == { NoEntry } \cup { FileEntry(c) : c \in 1..NumContents }
                \cup { LinkEntry(c) : c \in 0..1 }

NoEntries == [e \in EntryNames |-> NoEntry]

AbsentDir == [present |-> FALSE, entries |-> NoEntries]

EmptyDir == [present |-> TRUE, entries |-> NoEntries]

\* A file is 0 (absent), a content 1..NumContents, or Truncated: what an
\* interrupted shutil.copy2 leaves behind after opening the target for
\* writing.
Truncated == 0 - 1

FileVals == { Truncated } \cup (0..NumContents)

DirVals == [present : BOOLEAN, entries : [EntryNames -> EntryVals]]

\* ------------------------------------------------------------------------
\* I/O faults: which step of an operation raises, and how far the step got.
\* ------------------------------------------------------------------------
MaxSteps == 2 + Len(critical_files) + 2 * Len(critical_dirs)

NoFault == [at |-> 0, failed |-> {}, mk |-> TRUE]

\* failed: the directory entries a tree copy could not copy, or a tree
\* removal could not remove (none, one, or all); mk: the target of the step
\* could be opened or made at all
FailedSets == { {}, EntryNames } \cup { { e } : e \in EntryNames }

Faults ==
    { NoFault } \cup
    { f \in [at : 1..MaxSteps, failed : FailedSets, mk : BOOLEAN] :
        ~f.mk => f.failed = {} }

\* ------------------------------------------------------------------------
\* shutil helpers
\* ------------------------------------------------------------------------
Dangling(v) == v.kind = "link" /\ v.data = 0

\* copytree is called without symlinks=True, so every link is followed and
\* its target is copied as a regular file.
Deref(v) == IF v.kind = "link" THEN FileEntry(v.data) ELSE v

\* shutil.copytree(src, dst): entries whose copy fails are skipped and
\* reported at the end; entries already in dst stay (dirs_exist_ok).
CopytreeEntries(src, dst, failed) ==
    [e \in EntryNames |->
        IF src[e].kind = "none" \/ e \in failed \/ Dangling(src[e])
        THEN dst[e]
        ELSE Deref(src[e])]

CopytreeRaises(src, failed) ==
    \E e \in EntryNames : src[e].kind # "none" /\ (e \in failed \/ Dangling(src[e]))

\* ------------------------------------------------------------------------
\* RecoveryManager
\* ------------------------------------------------------------------------
None == "None"

RecoveryId == "pre-stig-remediation_ts"

NoManifest == [written |-> FALSE, files |-> << >>, directories |-> << >>]

\* <recovery_dir>/<recovery_id>/ on disk: the mirrored copies and the manifest.
EmptyStorage ==
    [exists |-> FALSE,
     files |-> [p \in Range(critical_files) |-> 0],
     dirs |-> [d \in DirPaths |-> AbsentDir],
     manifest |-> NoManifest]

RECURSIVE BackupFiles(_, _, _, _, _)
\* the loop "for filepath in critical_files"
BackupFiles(i, fsv, st, mfiles, fault) ==
    IF i > Len(critical_files)
    THEN [st |-> st, files |-> mfiles, ok |-> TRUE]
    ELSE LET p == critical_files[i] IN
         IF fsv.files[p] = 0
         THEN BackupFiles(i + 1, fsv, st, mfiles, fault)
         ELSE IF fault.at = 1 + i
         THEN [st |-> IF fault.mk THEN [st EXCEPT !.files[p] = Truncated] ELSE st,
               files |-> mfiles, ok |-> FALSE]
         ELSE BackupFiles(i + 1, fsv, [st EXCEPT !.files[p] = fsv.files[p]],
                          Append(mfiles, p), fault)

RECURSIVE BackupDirs(_, _, _, _, _)
\* the loop "for dirpath in critical_dirs"
BackupDirs(j, fsv, st, mdirs, fault) ==
    IF j > Len(critical_dirs)
    THEN [st |-> st, directories |-> mdirs, ok |-> TRUE]
    ELSE LET d == critical_dirs[j]
             src == fsv.dirs[d]
             hit == fault.at = 1 + Len(critical_files) + j
             failed == IF hit THEN fault.failed ELSE {}
             copied == [present |-> TRUE,
                        entries |-> CopytreeEntries(src.entries, st.dirs[d].entries, failed)]
         IN
         IF ~src.present
         THEN BackupDirs(j + 1, fsv, st, mdirs, fault)
         ELSE IF hit /\ ~fault.mk
         THEN [st |-> st, directories |-> mdirs, ok |-> FALSE]
         ELSE IF hit \/ CopytreeRaises(src.entries, failed)
         THEN [st |-> [st EXCEPT !.dirs[d] = copied], directories |-> mdirs, ok |-> FALSE]
         ELSE BackupDirs(j + 1, fsv, [st EXCEPT !.dirs[d] = copied], Append(mdirs, d), fault)

\* create_recovery_point(name): the storage it leaves, the value of
\* current_recovery_point afterwards, its return value, and the in-memory
\* manifest lists at the moment it returns.
create_recovery_point(fsv, st0, crp, fault) ==
    IF fault.at = 1
    THEN [st |-> st0, crp |-> crp, ok |-> FALSE, files |-> << >>, directories |-> << >>]
    ELSE LET st1 == [st0 EXCEPT !.exists = TRUE]
             rf == BackupFiles(1, fsv, st1, << >>, fault)
             rd == BackupDirs(1, fsv, rf.st, << >>, fault)
         IN
         IF ~rf.ok
         THEN [st |-> rf.st, crp |-> crp, ok |-> FALSE,
               files |-> rf.files, directories |-> << >>]
         ELSE IF ~rd.ok
         THEN [st |-> rd.st, crp |-> crp, ok |-> FALSE,
               files |-> rf.files, directories |-> rd.directories]
         ELSE IF fault.at = 2 + Len(critical_files) + Len(critical_dirs)
         THEN [st |-> rd.st, crp |-> crp, ok |-> FALSE,
               files |-> rf.files, directories |-> rd.directories]
         ELSE [st |-> [rd.st EXCEPT !.manifest =
                          [written |-> TRUE, files |-> rf.files,
                           directories |-> rd.directories]],
               crp |-> RecoveryId, ok |-> TRUE,
               files |-> rf.files, directories |-> rd.directories]

RECURSIVE RestoreFiles(_, _, _, _, _)
\* the loop "for filepath in manifest['files']"
RestoreFiles(i, fsv, st, mfiles, fault) ==
    IF i > Len(mfiles)
    THEN [fs |-> fsv, ok |-> TRUE]
    ELSE LET p == mfiles[i] IN
         IF st.files[p] = 0
         THEN RestoreFiles(i + 1, fsv, st, mfiles, fault)
         ELSE IF fault.at = 1 + i
         THEN [fs |-> IF fault.mk THEN [fsv EXCEPT !.files[p] = Truncated] ELSE fsv,
               ok |-> FALSE]
         ELSE RestoreFiles(i + 1, [fsv EXCEPT !.files[p] = st.files[p]], st, mfiles, fault)

\* shutil.rmtree(dirpath) interrupted: the entries in survivors are still there
Rmtree(dir, hit, survivors) ==
    IF hit
    THEN [present |-> TRUE,
          entries |-> [e \in EntryNames |->
                          IF e \in survivors THEN dir.entries[e] ELSE NoEntry]]
    ELSE AbsentDir

RECURSIVE RestoreDirsAllCritical(_, _, _, _, _, _)
\* RestoreDirs gone wrong: walks the hard-coded critical_dirs instead of the
\* manifest, and removes the live directory before looking for its copy
RestoreDirsAllCritical(j, fsv, st, mdirs, base, fault) ==
    IF j > Len(critical_dirs)
    THEN [fs |-> fsv, ok |-> TRUE]
    ELSE LET d == critical_dirs[j]
             cpHit == fault.at = base + 2 * j
             failed == IF cpHit THEN fault.failed ELSE {}
             copied == IF st.dirs[d].present
                       THEN [present |-> TRUE,
                             entries |-> CopytreeEntries(st.dirs[d].entries, NoEntries, failed)]
                       ELSE AbsentDir
         IN
         IF cpHit
         THEN [fs |-> [fsv EXCEPT !.dirs[d] = copied], ok |-> FALSE]
         ELSE RestoreDirsAllCritical(j + 1, [fsv EXCEPT !.dirs[d] = copied], st, mdirs,
                                     base, fault)

RECURSIVE RestoreDirs(_, _, _, _, _, _)
\* the loop "for dirpath in manifest['directories']"; base is the step
\* number of the last file copy
RestoreDirs(j, fsv, st, mdirs, base, fault) ==
    IF j > Len(mdirs)
    THEN [fs |-> fsv, ok |-> TRUE]
    ELSE LET d == mdirs[j]
             rmHit == fault.at = base + 2 * j - 1
             cpHit == fault.at = base + 2 * j
             live == fsv.dirs[d]
             removed == IF live.present THEN Rmtree(live, rmHit, fault.failed) ELSE live
             failed == IF cpHit THEN fault.failed ELSE {}
             copied == [present |-> TRUE,
                        entries |-> CopytreeEntries(st.dirs[d].entries, NoEntries, failed)]
         IN
         IF ~st.dirs[d].present
         THEN RestoreDirs(j + 1, fsv, st, mdirs, base, fault)
         ELSE IF live.present /\ rmHit
         THEN [fs |-> [fsv EXCEPT !.dirs[d] = removed], ok |-> FALSE]
         ELSE IF cpHit /\ ~fault.mk
         THEN [fs |-> [fsv EXCEPT !.dirs[d] = AbsentDir], ok |-> FALSE]
         ELSE IF cpHit
         THEN [fs |-> [fsv EXCEPT !.dirs[d] = copied], ok |-> FALSE]
         ELSE RestoreDirs(j + 1, [fsv EXCEPT !.dirs[d] = copied], st, mdirs, base, fault)

\* restore_recovery_point(recovery_id): the file system it leaves and its
\* return value.
restore_recovery_point(fsv, st, crp, recovery_id, fault) ==
    LET rid == IF recovery_id = None THEN crp ELSE recovery_id IN
    IF rid = None THEN [fs |-> fsv, ok |-> FALSE]
    ELSE IF ~st.exists THEN [fs |-> fsv, ok |-> FALSE]
    ELSE IF ~st.manifest.written \/ fault.at = 1 THEN [fs |-> fsv, ok |-> FALSE]
    ELSE LET rf == RestoreFiles(1, fsv, st, st.manifest.files, fault) IN
         IF ~rf.ok THEN rf
         ELSE RestoreDirs(1, rf.fs, st, st.manifest.directories,
                          1 + Len(st.manifest.files), fault)

\* ------------------------------------------------------------------------
\* State
\* ------------------------------------------------------------------------
VARIABLES
    fs,                      \* the live file system of the target
    storage,                 \* the bundle under RECOVERY_POINT_DIR
    current_recovery_point,  \* RecoveryManager.current_recovery_point
    rphase,                  \* RecoveryManager scenario: fresh, created, restored
    created,                 \* what create_recovery_point returned and captured
    fsAtCreate,              \* the file system when create_recovery_point ran
    fsBeforeRestore,         \* the file system when restore_recovery_point ran
    restoreRet,              \* what restore_recovery_point returned
    restoreArgs,             \* the recovery_id it was called with; was a fault injected
    edits,                   \* modifications made since the capture
    cfg,                     \* STIGConfig as main() set it
    pc,                      \* where run() is
    tier,                    \* the severity tier being applied (1..3)
    idx,                     \* managers of that tier already run
    all_errors,              \* len(self.all_errors)
    all_stig_controls,       \* self.all_stig_controls (ids, in order)
    result,                  \* what run() returned: "running", "True", "False"
    hist,                    \* what happened in this run
    preflight,               \* a PreFlightChecker: the checks' outcomes, its lists
    validator,               \* a ConfigValidator: the target's state, its lists
    sysctl,                  \* a SysctlManager and the kernel's live parameters
    remote,                  \* a RemoteExecutor, its hosts and their tasks
    airgap,                  \* a CompleteAirGapSTIGExecutor and its target
    win                      \* a WindowsSTIGRemoteExecutor and its target

rmvars == << fs, storage, current_recovery_point, rphase, created, fsAtCreate,
             fsBeforeRestore, restoreRet, restoreArgs, edits >>

runvars == << cfg, pc, tier, idx, all_errors, all_stig_controls, result, hist >>

unitvars == << preflight, validator, sysctl, remote, airgap, win >>

vars == << rmvars, runvars, unitvars >>

DirWith(v1, v2) ==
    [present |-> TRUE,
     entries |-> [e \in EntryNames |->
                     IF e = 1 THEN v1 ELSE IF e = 2 THEN v2 ELSE NoEntry]]

\* Directories as found on a target: missing, holding a regular file,
\* holding a link next to a regular file (as /etc/sysctl.d/99-sysctl.conf
\* is a link to ../sysctl.conf), or holding a dangling link.
InitDirStates ==
    { AbsentDir,
      DirWith(FileEntry(1), NoEntry),
      DirWith(LinkEntry(1), FileEntry(1)),
      DirWith(LinkEntry(0), NoEntry) }

OtherFilesInit(p) == IF p \in BackupCopies THEN 0 ELSE 1

\* Targets: at most one critical file missing, at most one critical
\* directory not in the common state (a link next to a regular file).
InitFsSet ==
    { [files |-> [p \in FilePaths |-> IF p \in OtherFiles THEN OtherFilesInit(p) ELSE cf[p]],
       dirs |-> cd] :
         cf \in { f \in [Range(critical_files) -> {0, 1}] :
                    Cardinality({ p \in Range(critical_files) : f[p] = 0 }) <= 1 },
         cd \in { g \in [DirPaths -> InitDirStates] :
                    Cardinality({ d \in DirPaths :
                                    g[d] # DirWith(LinkEntry(1), FileEntry(1)) }) <= 1 } }

NotCreated == [ok |-> FALSE, files |-> << >>, directories |-> << >>]

\* run() not started: the orchestrator variables while only the
\* RecoveryManager is exercised
DefaultConfig ==
    [EMERGENCY_RECOVERY_MODE |-> FALSE, ENABLE_PREFLIGHT_CHECKS |-> TRUE,
     ENABLE_AUTO_ROLLBACK |-> TRUE, DRY_RUN |-> FALSE,
     ENABLE_CONFIG_VALIDATION |-> TRUE, CAT1_PATCH |-> TRUE, CAT2_PATCH |-> TRUE,
     CAT3_PATCH |-> TRUE, FORCE_NO_BACKUP |-> FALSE,
     FORCE_SKIP_PREFLIGHT |-> FALSE]

NoHistory ==
    [prereq |-> "none", preflight |-> "none", emergency |-> FALSE,
     createAttempted |-> FALSE, createOk |-> FALSE,
     executed |-> {}, checked |-> {}, abort |-> "none",
     postval |-> "none", restoreAttempts |-> 0, restoreOk |-> FALSE,
     rollbackMsg |-> "none",
     summary |-> FALSE, touchedFiles |-> {}, touchedEntries |-> {}]

\* no PreFlightChecker and no ConfigValidator under test
NoUnit == [phase |-> "idle"]

UnitsIdle ==
    /\ preflight = NoUnit
    /\ validator = NoUnit
    /\ sysctl = NoUnit
    /\ remote = NoUnit
    /\ airgap = NoUnit
    /\ win = NoUnit

RunIdle ==
    /\ cfg = DefaultConfig
    /\ pc = "idle"
    /\ tier = 0
    /\ idx = 0
    /\ all_errors = 0
    /\ all_stig_controls = << >>
    /\ result = "running"
    /\ hist = NoHistory

RmInit ==
    /\ RunIdle
    /\ UnitsIdle
    /\ fs \in InitFsSet
    /\ storage = EmptyStorage
    /\ current_recovery_point = None
    /\ rphase = "fresh"
    /\ created = NotCreated
    /\ fsAtCreate = fs
    /\ fsBeforeRestore = fs
    /\ restoreRet = "none"
    /\ restoreArgs = [id |-> None, faulted |-> FALSE]
    /\ edits = 0

\* recovery_mgr.create_recovery_point("pre-stig-remediation")
Create ==
    /\ rphase = "fresh"
    /\ \E fault \in Faults :
         LET r == create_recovery_point(fs, storage, current_recovery_point, fault) IN
         /\ storage' = r.st
         /\ current_recovery_point' = r.crp
         /\ created' = [ok |-> r.ok, files |-> r.files, directories |-> r.directories]
    /\ fsAtCreate' = fs
    /\ rphase' = "created"
    /\ UNCHANGED << fs, fsBeforeRestore, restoreRet, restoreArgs, edits >>
    /\ UNCHANGED << runvars, unitvars >>

\* Anything on the target writing a new content to a file, or deleting it,
\* between capture and restore.
EditFile ==
    /\ rphase = "created"
    /\ created.ok         \* run() goes on to the controls only after a capture
    /\ edits < MaxEdits
    /\ \E p \in Range(critical_files) \cup { BannerFile }, c \in {0} \cup (2..NumContents) :
         /\ fs.files[p] # c
         /\ fs' = [fs EXCEPT !.files[p] = c]
    /\ edits' = edits + 1
    /\ UNCHANGED << storage, current_recovery_point, rphase, created, fsAtCreate,
                    fsBeforeRestore, restoreRet, restoreArgs >>
    /\ UNCHANGED << runvars, unitvars >>

\* Anything on the target adding a directory entry, overwriting or deleting
\* one, or removing or making the directory itself.
EditDir ==
    /\ rphase = "created"
    /\ created.ok         \* run() goes on to the controls only after a capture
    /\ edits < MaxEdits
    /\ \E d \in DirPaths :
         \/ /\ fs.dirs[d].present
            /\ \E e \in EntryNames,
                  v \in { NoEntry } \cup { FileEntry(c) : c \in 2..NumContents } :
                 /\ fs.dirs[d].entries[e] # v
                 /\ fs' = [fs EXCEPT !.dirs[d].entries[e] = v]
         \/ /\ fs.dirs[d].present
            /\ fs' = [fs EXCEPT !.dirs[d] = AbsentDir]
         \/ /\ ~fs.dirs[d].present
            /\ fs' = [fs EXCEPT !.dirs[d] = EmptyDir]
    /\ edits' = edits + 1
    /\ UNCHANGED << storage, current_recovery_point, rphase, created, fsAtCreate,
                    fsBeforeRestore, restoreRet, restoreArgs >>
    /\ UNCHANGED << runvars, unitvars >>

\* A copy disappearing from the bundle between capture and restore (the
\* bundle directory is cleaned up or damaged); manifest.json stays.
LoseBackup ==
    /\ rphase = "created"
    /\ created.ok
    /\ edits < MaxEdits
    /\ \/ \E p \in Range(storage.manifest.files) :
             /\ storage.files[p] # 0
             /\ storage' = [storage EXCEPT !.files[p] = 0]
       \/ \E d \in Range(storage.manifest.directories) :
             /\ storage.dirs[d].present
             /\ storage' = [storage EXCEPT !.dirs[d] = AbsentDir]
    /\ edits' = edits + 1
    /\ UNCHANGED << fs, current_recovery_point, rphase, created, fsAtCreate,
                    fsBeforeRestore, restoreRet, restoreArgs >>
    /\ UNCHANGED << runvars, unitvars >>

\* recovery_mgr.restore_recovery_point(recovery_id)
Restore ==
    /\ rphase \in {"fresh", "created"}
    /\ \E recovery_id \in {None, RecoveryId}, fault \in Faults :
         LET r == restore_recovery_point(fs, storage, current_recovery_point,
                                         recovery_id, fault) IN
         /\ fs' = r.fs
         /\ restoreRet' = IF r.ok THEN "True" ELSE "False"
         /\ restoreArgs' = [id |-> recovery_id, faulted |-> fault # NoFault]
    /\ fsBeforeRestore' = fs
    /\ rphase' = "restored"
    /\ UNCHANGED << storage, current_recovery_point, created, fsAtCreate, edits >>
    /\ UNCHANGED << runvars, unitvars >>

RmNext == Create \/ EditFile \/ EditDir \/ LoseBackup \/ Restore

RecoverySpec == RmInit /\ [][RmNext]_vars

\* ------------------------------------------------------------------------
\* Properties of the RecoveryManager
\* ------------------------------------------------------------------------
ListedFiles == Range(storage.manifest.files)

ListedDirs == Range(storage.manifest.directories)

\* C8: after create captured a file or directory, and whatever was modified,
\* added or deleted since, a successful restore of that recovery point
\* leaves every captured file and every captured directory exactly as it
\* was at capture time.
C8_RoundTrip ==
    (rphase = "restored" /\ created.ok /\ restoreRet = "True") =>
        /\ \A p \in Range(created.files) : fs.files[p] = fsAtCreate.files[p]
        /\ \A d \in Range(created.directories) : fs.dirs[d] = fsAtCreate.dirs[d]

\* C9: restore never changes a path that is neither listed in the manifest
\* nor inside a listed directory, whether it succeeds or fails.
C9_RestoreFrame ==
    rphase = "restored" =>
        /\ \A p \in FilePaths \ ListedFiles : fs.files[p] = fsBeforeRestore.files[p]
        /\ \A d \in DirPaths \ ListedDirs : fs.dirs[d] = fsBeforeRestore.dirs[d]

\* a failed restore that changed listed paths while a critical directory
\* made after the capture, so not listed, is on the target
C9_Witness ==
    /\ rphase = "restored"
    /\ restoreRet = "False"
    /\ fs # fsBeforeRestore
    /\ \E d \in DirPaths \ ListedDirs : fs.dirs[d].present /\ ~fsAtCreate.dirs[d].present

\* C10: a create that fails after capturing some items leaves a manifest
\* listing exactly those items, and restoring that bundle succeeds and
\* brings those items back.
C10_PartialBundleRestorable ==
    (rphase # "fresh" /\ ~created.ok /\ Len(created.files) + Len(created.directories) > 0) =>
        /\ storage.manifest.written
        /\ storage.manifest.files = created.files
        /\ storage.manifest.directories = created.directories
        /\ (rphase = "restored" /\ restoreArgs = [id |-> RecoveryId, faulted |-> FALSE]) =>
              /\ restoreRet = "True"
              /\ \A p \in Range(created.files) : fs.files[p] = fsAtCreate.files[p]

\* the listed items that "if os.path.exists(backup_path)" passes over
SkippedItems ==
    { p \in ListedFiles : storage.files[p] = 0 }
        \cup { d \in ListedDirs : ~storage.dirs[d].present }

\* C11: restore returns True only if every file and every directory listed
\* in the manifest was copied back; when a listed item is not restored it
\* returns False.
C11_SuccessMeansAllRestored ==
    (rphase = "restored" /\ restoreRet = "True") => SkippedItems = {}

\* ------------------------------------------------------------------------
\* UBUNTU20STIGRemediation: the orchestrator
\* ------------------------------------------------------------------------
MAX_FAILED_COMMANDS == 10

Hardened == NumContents          \* the content a control writes

StigEntry == NumEntries          \* /etc/sysctl.d/99-stig-v2r3.conf

\* The managers run by run_cat1_controls, run_cat2_controls and
\* run_cat3_controls, each followed by collect_results: the file a manager
\* backs up first (src), the file it writes (file), the critical directory
\* it writes an entry into (dir), and whether it goes through run_command or
\* atomic_write, which append to its error list (fails), and whether an
\* exception escapes it on every call (raises).
\* FilePermissionsManager only logs its failures.
\* SysctlManager.apply_stig_params raises TypeError in
\* detect_parameter_conflicts before it sets or writes anything, so the
\* managers that follow it in run_cat2_controls are never reached.
Catalog ==
    << << [name |-> "SSHManager.configure_sshd", src |-> AllCriticalFiles[1],
           file |-> AllCriticalFiles[1], dir |-> None, fails |-> TRUE,
           raises |-> FALSE],
          [name |-> "PAMManager.remove_nullok", src |-> AllCriticalFiles[2],
           file |-> AllCriticalFiles[2], dir |-> None, fails |-> TRUE,
           raises |-> FALSE] >>,
       << [name |-> "SysctlManager.apply_stig_params", src |-> None,
           file |-> None, dir |-> AllCriticalDirs[1], fails |-> TRUE,
           raises |-> TRUE],
          [name |-> "BannerManager.configure_banners", src |-> None,
           file |-> BannerFile, dir |-> None, fails |-> TRUE,
           raises |-> FALSE] >>,
       << [name |-> "FilePermissionsManager.apply_stig_permissions", src |-> None,
           file |-> PasswdFile, dir |-> None, fails |-> FALSE,
           raises |-> FALSE] >> >>

NumTiers == Len(Catalog)

TierEnabled(t) ==
    IF t = 1 THEN cfg.CAT1_PATCH ELSE IF t = 2 THEN cfg.CAT2_PATCH ELSE cfg.CAT3_PATCH

\* What a manager's backup_file and atomic_write calls do to the target.
ApplyControl(fsv, c) ==
    LET f1 == IF c.src # None /\ fsv.files[c.src] # 0
              THEN [fsv.files EXCEPT ![BackupCopyOf[c.src]] = fsv.files[c.src]]
              ELSE fsv.files
        f2 == IF c.file # None THEN [f1 EXCEPT ![c.file] = Hardened] ELSE f1
        d2 == IF c.dir # None /\ fsv.dirs[c.dir].present
              THEN [fsv.dirs EXCEPT ![c.dir].entries[StigEntry] = FileEntry(Hardened)]
              ELSE fsv.dirs
    IN [files |-> f2, dirs |-> d2]

TouchedFilesOf(c) ==
    (IF c.src # None THEN { BackupCopyOf[c.src] } ELSE {})
        \cup (IF c.file # None THEN { c.file } ELSE {})

TouchedEntriesOf(c) == IF c.dir # None THEN { << c.dir, StigEntry >> } ELSE {}

\* How one manager can end: whether its writes took place, how many
\* entries it added to its error list, whether an exception escaped it.
ControlOutcomes(c) ==
    { o \in [applied : BOOLEAN, errs : 0..MaxErrPerControl, raised : BOOLEAN] :
        /\ o.raised => o.errs = 0
        /\ ~c.fails => (o.errs = 0 /\ ~o.raised)
        /\ c.raises => (o.raised /\ ~o.applied) }

\* main(): every tier is enabled unless --cat1-only, --cat2-only or
\* --cat3-only selects a single one; the other flags are independent.
Configs ==
    { c \in [EMERGENCY_RECOVERY_MODE : BOOLEAN, ENABLE_PREFLIGHT_CHECKS : BOOLEAN,
             ENABLE_AUTO_ROLLBACK : BOOLEAN, DRY_RUN : BOOLEAN,
             ENABLE_CONFIG_VALIDATION : BOOLEAN, CAT1_PATCH : BOOLEAN,
             CAT2_PATCH : BOOLEAN, CAT3_PATCH : BOOLEAN, FORCE_NO_BACKUP : BOOLEAN,
             FORCE_SKIP_PREFLIGHT : BOOLEAN] :
        \/ c.CAT1_PATCH /\ c.CAT2_PATCH /\ c.CAT3_PATCH
        \/ Cardinality({ t \in 1..3 : << c.CAT1_PATCH, c.CAT2_PATCH, c.CAT3_PATCH >>[t] }) = 1 }

\* A target as the run finds it: every critical file present, every critical
\* directory holding one link, no backup copies yet.
TypicalFs ==
    [files |-> [p \in FilePaths |-> OtherFilesInit(p)],
     dirs |-> [d \in DirPaths |-> DirWith(LinkEntry(1), NoEntry)]]

\* The I/O faults injected while the orchestrator runs: none, the first
\* step raising, the first copy interrupted.
RunFaults == { f \in Faults : f.at \in 0..2 /\ f.failed = {} /\ f.mk }

RmIdle ==
    /\ storage = EmptyStorage
    /\ current_recovery_point = None
    /\ rphase = "fresh"
    /\ created = NotCreated
    /\ fsAtCreate = fs
    /\ fsBeforeRestore = fs
    /\ restoreRet = "none"
    /\ restoreArgs = [id |-> None, faulted |-> FALSE]
    /\ edits = 0

\* A target that an earlier run hardened: backup_file left copies of the
\* originals next to the files that were rewritten.
HardenedFs ==
    [TypicalFs EXCEPT !.files =
        [p \in FilePaths |->
            IF p \in DOMAIN BackupCopyOf THEN Hardened
            ELSE IF p \in BackupCopies THEN 1
            ELSE TypicalFs.files[p]]]

\* --emergency is used on a target that was hardened before
StartFs(c) == IF c.EMERGENCY_RECOVERY_MODE THEN { TypicalFs, HardenedFs } ELSE { TypicalFs }

Init ==
    /\ cfg \in Configs
    /\ fs \in StartFs(cfg)
    /\ RmIdle
    /\ UnitsIdle
    /\ pc = "start"
    /\ tier = 0
    /\ idx = 0
    /\ all_errors = 0
    /\ all_stig_controls = << >>
    /\ result = "running"
    /\ hist = NoHistory

rmbook == << rphase, created, fsAtCreate, fsBeforeRestore, restoreRet, restoreArgs, edits,
            unitvars >>

\* EmergencyRecovery.emergency_mode: restore_ssh_access and
\* restore_pam_access copy the latest per-file backup over the original.
emergency_mode(fsv) ==
    [fsv EXCEPT !.files =
        [p \in FilePaths |->
            IF p \in DOMAIN BackupCopyOf /\ fsv.files[BackupCopyOf[p]] # 0
            THEN fsv.files[BackupCopyOf[p]]
            ELSE fsv.files[p]]]

Return(value) ==
    /\ result' = value
    /\ pc' = "done"

\* RunStart gone wrong: the emergency branch does not return
RunStartEmergencyFallsThrough ==
    /\ pc = "start"
    /\ \/ /\ cfg.EMERGENCY_RECOVERY_MODE
          /\ fs' = emergency_mode(fs)
          /\ hist' = [hist EXCEPT !.emergency = TRUE, !.prereq = "pass"]
          /\ pc' = "preflight"
          /\ result' = result
       \/ /\ ~cfg.EMERGENCY_RECOVERY_MODE
          /\ fs' = fs
          /\ \/ /\ hist' = [hist EXCEPT !.prereq = "fail"]
                /\ Return("False")
             \/ /\ hist' = [hist EXCEPT !.prereq = "pass"]
                /\ pc' = "preflight"
                /\ result' = result
    /\ UNCHANGED << storage, current_recovery_point, rmbook, cfg, tier, idx,
                    all_errors, all_stig_controls >>

\* run(): the emergency branch, then check_prerequisites
RunStart ==
    /\ pc = "start"
    /\ \/ /\ cfg.EMERGENCY_RECOVERY_MODE
          /\ \/ /\ fs' = emergency_mode(fs)
                /\ Return("True")
             \/ \* a copy or the restart of sshd raises before anything is
                \* restored: the outer "except Exception" returns False
                /\ fs' = fs
                /\ Return("False")
          /\ hist' = [hist EXCEPT !.emergency = TRUE]
       \/ /\ ~cfg.EMERGENCY_RECOVERY_MODE
          /\ fs' = fs
          /\ \/ /\ hist' = [hist EXCEPT !.prereq = "fail"]
                /\ Return("False")
             \/ /\ hist' = [hist EXCEPT !.prereq = "pass"]
                /\ pc' = "preflight"
                /\ result' = result
    /\ UNCHANGED << storage, current_recovery_point, rmbook, cfg, tier, idx,
                    all_errors, all_stig_controls >>

\* RunPreflight gone wrong: a failed check is logged but does not stop the run
RunPreflightIgnoringFailure ==
    /\ pc = "preflight"
    /\ \/ /\ ~cfg.ENABLE_PREFLIGHT_CHECKS
          /\ UNCHANGED hist
       \/ /\ cfg.ENABLE_PREFLIGHT_CHECKS
          /\ \E r \in {"pass", "fail"} : hist' = [hist EXCEPT !.preflight = r]
    /\ pc' = "snapshot"
    /\ UNCHANGED << fs, storage, current_recovery_point, rmbook, cfg, tier, idx,
                    all_errors, all_stig_controls, result >>

\* run(): PRE-FLIGHT SAFETY CHECKS
RunPreflight ==
    /\ pc = "preflight"
    /\ \/ /\ ~cfg.ENABLE_PREFLIGHT_CHECKS
          /\ pc' = "snapshot"
          /\ UNCHANGED << result, hist >>
       \/ /\ cfg.ENABLE_PREFLIGHT_CHECKS
          /\ \/ /\ hist' = [hist EXCEPT !.preflight = "fail"]
                /\ Return("False")
             \/ /\ hist' = [hist EXCEPT !.preflight = "pass"]
                /\ pc' = "snapshot"
                /\ result' = result
             \/ /\ ~cfg.DRY_RUN      \* warnings shown, Ctrl+C within 10 seconds
                /\ hist' = [hist EXCEPT !.preflight = "aborted"]
                /\ Return("False")
    /\ UNCHANGED << fs, storage, current_recovery_point, rmbook, cfg, tier, idx,
                    all_errors, all_stig_controls >>

\* RunSnapshot gone wrong: the tiers start whatever create_recovery_point
\* returned
RunSnapshotIgnoringFailure ==
    /\ pc = "snapshot"
    /\ \/ /\ cfg.ENABLE_AUTO_ROLLBACK /\ ~cfg.DRY_RUN
          /\ \E fault \in RunFaults :
               LET r == create_recovery_point(fs, storage, current_recovery_point, fault) IN
               /\ storage' = r.st
               /\ current_recovery_point' = r.crp
               /\ hist' = [hist EXCEPT !.createAttempted = TRUE, !.createOk = r.ok]
       \/ /\ ~(cfg.ENABLE_AUTO_ROLLBACK /\ ~cfg.DRY_RUN)
          /\ UNCHANGED << storage, current_recovery_point, hist >>
    /\ pc' = "tiers"
    /\ tier' = 1
    /\ UNCHANGED << fs, rmbook, cfg, idx, all_errors, all_stig_controls, result >>

\* run(): CREATE RECOVERY POINT
RunSnapshot ==
    /\ pc = "snapshot"
    /\ \/ /\ cfg.ENABLE_AUTO_ROLLBACK /\ ~cfg.DRY_RUN
          /\ \E fault \in RunFaults :
               LET r == create_recovery_point(fs, storage, current_recovery_point, fault) IN
               /\ storage' = r.st
               /\ current_recovery_point' = r.crp
               /\ hist' = [hist EXCEPT !.createAttempted = TRUE, !.createOk = r.ok]
               /\ IF r.ok
                  THEN pc' = "tiers" /\ tier' = 1 /\ result' = result
                  ELSE Return("False") /\ tier' = tier
       \/ /\ ~(cfg.ENABLE_AUTO_ROLLBACK /\ ~cfg.DRY_RUN)
          /\ pc' = "tiers"
          /\ tier' = 1
          /\ UNCHANGED << storage, current_recovery_point, result, hist >>
    /\ UNCHANGED << fs, rmbook, cfg, idx, all_errors, all_stig_controls >>

\* run(): the handler "except Exception as e" around the tiers (AUTOMATIC
\* ROLLBACK on critical errors), as the outcomes it can have from fsv
AbortOutcomes(fsv) ==
    IF cfg.ENABLE_AUTO_ROLLBACK /\ ~cfg.DRY_RUN /\ current_recovery_point # None
    THEN { [fs |-> r.fs, attempted |-> 1, ok |-> r.ok,
            msg |-> IF r.ok THEN "System restored to pre-remediation state"
                    ELSE "ROLLBACK FAILED - Manual recovery required"] :
             r \in { restore_recovery_point(fsv, storage, current_recovery_point, None, f) :
                       f \in RunFaults } }
    ELSE { [fs |-> fsv, attempted |-> 0, ok |-> FALSE, msg |-> "none"] }

\* one manager of the current tier and the collect_results after it
RunControl ==
    /\ pc = "tiers"
    /\ TierEnabled(tier)
    /\ idx < Len(Catalog[tier])
    /\ LET c == Catalog[tier][idx + 1] IN
       \E o \in ControlOutcomes(c) :
          LET writes == o.applied /\ ~cfg.DRY_RUN
              fsMid == IF writes THEN ApplyControl(fs, c) ELSE fs
              h1 == [hist EXCEPT
                        !.executed = @ \cup { c.name },
                        !.touchedFiles = IF writes THEN @ \cup TouchedFilesOf(c) ELSE @,
                        !.touchedEntries = IF writes THEN @ \cup TouchedEntriesOf(c) ELSE @]
          IN
          /\ o.applied => (IF c.dir = None THEN TRUE ELSE fs.dirs[c.dir].present)
          /\ all_errors + o.errs <= MaxErrors
          /\ IF o.raised
             THEN \E a \in AbortOutcomes(fsMid) :
                    /\ fs' = a.fs
                    /\ hist' = [h1 EXCEPT !.abort = "exception",
                                          !.restoreAttempts = @ + a.attempted,
                                          !.restoreOk = a.ok,
                                          !.rollbackMsg = a.msg]
                    /\ Return("False")
                    /\ UNCHANGED << idx, all_errors, all_stig_controls >>
             ELSE /\ fs' = fsMid
                  /\ hist' = h1
                  /\ idx' = idx + 1
                  /\ all_errors' = all_errors + o.errs
                  /\ all_stig_controls' =
                        IF o.applied THEN Append(all_stig_controls, c.name)
                        ELSE all_stig_controls
                  /\ UNCHANGED << pc, result >>
    /\ UNCHANGED << storage, current_recovery_point, rmbook, cfg, tier >>

TierOver == pc = "tiers" /\ (~TierEnabled(tier) \/ idx = Len(Catalog[tier]))

\* OverBudget gone wrong: aborts already at the threshold
OverBudgetAtThreshold(n) == n >= MAX_FAILED_COMMANDS

\* "if len(self.all_errors) > STIGConfig.MAX_FAILED_COMMANDS"
OverBudget(n) == n > MAX_FAILED_COMMANDS

\* run(): "Check for critical errors after CAT I" and "after CAT II"
BudgetCheck ==
    /\ TierOver
    /\ tier < NumTiers
    /\ IF OverBudget(all_errors)
       THEN \E a \in AbortOutcomes(fs) :
              /\ fs' = a.fs
              /\ hist' = [hist EXCEPT !.checked = @ \cup { tier },
                                      !.abort = "budget",
                                      !.restoreAttempts = @ + a.attempted,
                                      !.restoreOk = a.ok,
                                      !.rollbackMsg = a.msg]
              /\ Return("False")
              /\ UNCHANGED << tier, idx >>
       ELSE /\ tier' = tier + 1
            /\ idx' = 0
            /\ hist' = [hist EXCEPT !.checked = @ \cup { tier }]
            /\ UNCHANGED << fs, pc, result >>
    /\ UNCHANGED << storage, current_recovery_point, rmbook, cfg, all_errors,
                    all_stig_controls >>

\* run(): run_cat3_controls returns and the try block around the tiers ends
FinishTiers ==
    /\ TierOver
    /\ tier = NumTiers
    /\ pc' = "postvalidate"
    /\ UNCHANGED << fs, storage, current_recovery_point, rmbook, cfg, tier, idx,
                    all_errors, all_stig_controls, result, hist >>

\* RunPostValidate gone wrong: a failed validation returns failure without
\* restoring the recovery point
RunPostValidateNoRestore ==
    /\ pc = "postvalidate"
    /\ \/ /\ cfg.ENABLE_CONFIG_VALIDATION /\ ~cfg.DRY_RUN
          /\ \/ /\ hist' = [hist EXCEPT !.postval = "pass"]
                /\ pc' = "summary"
                /\ UNCHANGED result
             \/ /\ \E v \in {"fail", "raised"} : hist' = [hist EXCEPT !.postval = v]
                /\ Return("False")
       \/ /\ ~(cfg.ENABLE_CONFIG_VALIDATION /\ ~cfg.DRY_RUN)
          /\ pc' = "summary"
          /\ UNCHANGED << result, hist >>
    /\ UNCHANGED << fs, storage, current_recovery_point, rmbook, cfg, tier, idx,
                    all_errors, all_stig_controls >>

\* run(): POST-REMEDIATION VALIDATION
RunPostValidate ==
    /\ pc = "postvalidate"
    /\ \/ /\ cfg.ENABLE_CONFIG_VALIDATION /\ ~cfg.DRY_RUN
          /\ \/ /\ hist' = [hist EXCEPT !.postval = "pass"]
                /\ pc' = "summary"
                /\ UNCHANGED << fs, result >>
             \/ /\ cfg.ENABLE_AUTO_ROLLBACK
                /\ \E f \in RunFaults :
                     LET r == restore_recovery_point(fs, storage, current_recovery_point,
                                                     None, f) IN
                     /\ fs' = r.fs
                     /\ hist' = [hist EXCEPT !.postval = "fail",
                                             !.restoreAttempts = @ + 1,
                                             !.restoreOk = r.ok,
                                             !.rollbackMsg =
                                                 IF r.ok
                                                 THEN "System restored to pre-remediation state"
                                                 ELSE "none"]
                /\ Return("False")
             \/ /\ ~cfg.ENABLE_AUTO_ROLLBACK
                /\ hist' = [hist EXCEPT !.postval = "fail"]
                /\ fs' = fs
                /\ Return("False")
             \/ \* a validator raises (sshd or visudo cannot be started): the
                \* outer "except Exception" returns False
                /\ hist' = [hist EXCEPT !.postval = "raised"]
                /\ fs' = fs
                /\ Return("False")
       \/ /\ ~(cfg.ENABLE_CONFIG_VALIDATION /\ ~cfg.DRY_RUN)
          /\ pc' = "summary"
          /\ UNCHANGED << fs, result, hist >>
    /\ UNCHANGED << storage, current_recovery_point, rmbook, cfg, tier, idx,
                    all_errors, all_stig_controls >>

\* RunSummary gone wrong: a run that reaches the summary returns success
\* whatever its error list holds
RunSummaryAlwaysSuccess ==
    /\ pc = "summary"
    /\ hist' = [hist EXCEPT !.summary = TRUE]
    /\ Return("True")
    /\ UNCHANGED << fs, storage, current_recovery_point, rmbook, cfg, tier, idx,
                    all_errors, all_stig_controls >>

\* run(): print_summary and the final success check
RunSummary ==
    /\ pc = "summary"
    /\ hist' = [hist EXCEPT !.summary = TRUE]
    /\ Return(IF all_errors = 0 THEN "True" ELSE "False")
    /\ UNCHANGED << fs, storage, current_recovery_point, rmbook, cfg, tier, idx,
                    all_errors, all_stig_controls >>

Next ==
    \/ RunStart
    \/ RunPreflight
    \/ RunSnapshot
    \/ RunControl
    \/ BudgetCheck
    \/ FinishTiers
    \/ RunPostValidate
    \/ RunSummary

Spec == Init /\ [][Next]_vars

\* ------------------------------------------------------------------------
\* Properties of the orchestrator
\* ------------------------------------------------------------------------
RollbackArmed == cfg.ENABLE_AUTO_ROLLBACK /\ ~cfg.DRY_RUN

PastTiers == pc \in {"postvalidate", "summary"} \/ hist.postval # "none" \/ hist.summary

TierControls(t) == { Catalog[t][i].name : i \in 1..Len(Catalog[t]) }

C2_CheckAfterEveryTier ==
    PastTiers => (hist.checked = 1..NumTiers /\ all_errors <= MAX_FAILED_COMMANDS)

\* C3: a run whose preflight checks are enabled and fail returns failure
\* having created no recovery point, executed no control and changed nothing.
C3_PreflightFailureHalts ==
    hist.preflight = "fail" =>
        /\ cfg.ENABLE_PREFLIGHT_CHECKS
        /\ pc = "done" /\ result = "False"
        /\ ~hist.createAttempted /\ ~storage.exists /\ current_recovery_point = None
        /\ hist.executed = {} /\ all_stig_controls = << >>
        /\ fs = TypicalFs

C3_Witness == hist.preflight = "fail" /\ pc = "done"

\* C4: in a run that is not a dry run and has rollback enabled, a control
\* has executed only if create_recovery_point returned True before, leaving
\* a bundle with a manifest.
C4_SnapshotBeforeControls ==
    (RollbackArmed /\ hist.executed # {}) =>
        /\ hist.createOk
        /\ current_recovery_point = RecoveryId
        /\ storage.manifest.written

C4_Witness == RollbackArmed /\ hist.executed # {} /\ hist.createOk

\* C5 as stated: when create_recovery_point fails the run halts before any
\* control, unless FORCE_NO_BACKUP is set, and then the tiers are entered.
C5_NoBackupForceProceeds ==
    (hist.createAttempted /\ ~hist.createOk) =>
        IF cfg.FORCE_NO_BACKUP
        THEN tier >= 1
        ELSE pc = "done" /\ result = "False" /\ hist.executed = {}

\* C6: post-validation runs only in a run that is not a dry run and whose
\* enabled tiers all completed without abort; when validate_all reports a
\* failure, the run returns failure, after exactly one restore if rollback
\* is enabled and after none if it is disabled.
C6_PostValidateGate ==
    /\ hist.postval # "none" =>
          /\ ~cfg.DRY_RUN
          /\ hist.abort = "none"
          /\ \A t \in 1..NumTiers : TierEnabled(t) => TierControls(t) \subseteq hist.executed
    /\ hist.postval = "fail" =>
          /\ pc = "done" /\ result = "False"
          /\ hist.restoreAttempts = (IF cfg.ENABLE_AUTO_ROLLBACK THEN 1 ELSE 0)

C6_Witness ==
    /\ hist.postval = "fail"
    /\ cfg.ENABLE_AUTO_ROLLBACK
    /\ hist.restoreAttempts = 1
    /\ hist.executed # {}

\* C7 as stated: when a restore succeeded after a post-validation failure or
\* a budget abort, every file and directory entry that the run's controls
\* wrote or created is as it was before the run.
C7_RolledBackIsPreRun ==
    (pc = "done" /\ hist.restoreAttempts = 1 /\ hist.restoreOk
       /\ (hist.postval = "fail" \/ hist.abort = "budget")) =>
        /\ \A p \in hist.touchedFiles : fs.files[p] = TypicalFs.files[p]
        /\ \A x \in hist.touchedEntries :
              fs.dirs[x[1]].entries[x[2]] = TypicalFs.dirs[x[1]].entries[x[2]]

\* what run() returns on success, after a successful rollback and on a
\* failure without rollback
PlainResults == {"True", "False"}

\* C12: a run whose rollback was attempted and whose restore failed logs the
\* failed rollback and returns a result that neither a run with a
\* successful rollback nor a failed run without rollback returns.
C12_RollbackFailureFlagged ==
    (pc = "done" /\ hist.restoreAttempts > 0 /\ ~hist.restoreOk) =>
        /\ hist.rollbackMsg = "ROLLBACK FAILED - Manual recovery required"
        /\ result \notin PlainResults

\* C13: every run that has returned has a terminal result and has
\* reported its change, error, warning and control ledgers (print_summary)
\* before it returned, on the preflight-failure, budget-abort and
\* post-validation-failure paths too.
C13_LedgersOnEveryPath ==
    (pc = "done" /\ ~hist.emergency) =>
        /\ result \in {"True", "False"}
        /\ hist.summary

\* C14: a run in emergency mode only restores: it returns without a
\* prerequisite or preflight check, without a recovery point, without any
\* control and without post-validation, and the only files it may change
\* are those it copies back from their backup copies.
C14_EmergencyRestoresOnly ==
    hist.emergency =>
        /\ cfg.EMERGENCY_RECOVERY_MODE
        /\ pc = "done"
        /\ hist.prereq = "none" /\ hist.preflight = "none"
        /\ ~hist.createAttempted /\ ~storage.exists /\ current_recovery_point = None
        /\ hist.executed = {} /\ all_stig_controls = << >> /\ all_errors = 0
        /\ hist.postval = "none" /\ ~hist.summary
        /\ fs.dirs = fsAtCreate.dirs
        /\ \A p \in FilePaths :
              fs.files[p] # fsAtCreate.files[p] =>
                  /\ p \in DOMAIN BackupCopyOf
                  /\ fs.files[p] = fsAtCreate.files[BackupCopyOf[p]]

\* an emergency run that brought sshd_config back from its backup copy
C14_Witness ==
    /\ hist.emergency
    /\ result = "True"
    /\ fs # fsAtCreate
    /\ fs.files[AllCriticalFiles[1]] = 1

\* C15: with the force flag for preflight set, the preflight checks are
\* still executed (their failures logged) and a failed check does not end
\* the run.
C15_ForcedPreflightDoesNotBlock ==
    /\ (cfg.FORCE_SKIP_PREFLIGHT /\ pc = "snapshot") => hist.preflight \in {"pass", "fail"}
    /\ (cfg.FORCE_SKIP_PREFLIGHT /\ hist.preflight = "fail") => pc # "done"

\* ------------------------------------------------------------------------
\* PreFlightChecker
\* ------------------------------------------------------------------------
NumChecks == 4       \* how many entries of the checks list are modelled

CheckNames ==
    << "Root Privileges", "Operating System", "Disk Space", "Critical Services",
       "Network Connectivity", "Backup Directory", "SSH Access", "Snapshot Status",
       "Config File Integrity", "Package System" >>

checks == SubSeq(CheckNames, 1, Min(NumChecks, Len(CheckNames)))

\* a check function returns (True, message), returns (False, message) or raises
CheckOutcomes == {"pass", "fail", "raise"}

\* PreFlightChecker(): empty lists; outcomes is what each check of this
\* target will do when called
NewChecker(outcomes) ==
    [phase |-> "new", outcomes |-> outcomes, called |-> << >>,
     checks_passed |-> << >>, checks_failed |-> << >>, ret |-> "none"]

RECURSIVE ChecksLoopFailFast(_, _, _)
\* ChecksLoop gone wrong: the try is around the loop, so a check that raises
\* ends it
ChecksLoopFailFast(i, outcomes, acc) ==
    IF i > Len(checks)
    THEN acc
    ELSE LET name == checks[i]
             acc1 == [acc EXCEPT !.called = Append(@, name)]
         IN
         IF outcomes[i] = "pass"
         THEN ChecksLoopFailFast(i + 1, outcomes,
                                 [acc1 EXCEPT !.checks_passed = Append(@, name)])
         ELSE IF outcomes[i] = "fail"
         THEN ChecksLoopFailFast(i + 1, outcomes,
                                 [acc1 EXCEPT !.checks_failed = Append(@, << name, "FAIL" >>),
                                              !.all_passed = FALSE])
         ELSE [acc1 EXCEPT !.checks_failed = Append(@, << name, "ERROR" >>),
                           !.all_passed = FALSE]

RECURSIVE ChecksLoop(_, _, _)
\* the loop "for check_name, check_func in checks" with its try/except
ChecksLoop(i, outcomes, acc) ==
    IF i > Len(checks)
    THEN acc
    ELSE LET name == checks[i]
             acc1 == [acc EXCEPT !.called = Append(@, name)]
         IN
         IF outcomes[i] = "pass"
         THEN ChecksLoop(i + 1, outcomes, [acc1 EXCEPT !.checks_passed = Append(@, name)])
         ELSE IF outcomes[i] = "fail"
         THEN ChecksLoop(i + 1, outcomes,
                         [acc1 EXCEPT !.checks_failed = Append(@, << name, "FAIL" >>),
                                      !.all_passed = FALSE])
         ELSE ChecksLoop(i + 1, outcomes,
                         [acc1 EXCEPT !.checks_failed = Append(@, << name, "ERROR" >>),
                                      !.all_passed = FALSE])

\* PreFlightChecker.run_all_checks
run_all_checks(pf) ==
    LET r == ChecksLoop(1, pf.outcomes,
                        [called |-> pf.called, checks_passed |-> pf.checks_passed,
                         checks_failed |-> pf.checks_failed, all_passed |-> TRUE])
    IN [pf EXCEPT !.phase = "done", !.called = r.called,
                  !.checks_passed = r.checks_passed,
                  !.checks_failed = r.checks_failed,
                  !.ret = IF r.all_passed THEN "True" ELSE "False"]

PfInit ==
    /\ RunIdle
    /\ fs = TypicalFs
    /\ RmIdle
    /\ validator = NoUnit
    /\ sysctl = NoUnit
    /\ remote = NoUnit
    /\ airgap = NoUnit
    /\ win = NoUnit
    /\ preflight \in { NewChecker(o) : o \in [1..Len(checks) -> CheckOutcomes] }

\* preflight.run_all_checks()
RunAllChecks ==
    /\ preflight.phase = "new"
    /\ preflight' = run_all_checks(preflight)
    /\ UNCHANGED << rmvars, runvars, validator, sysctl, remote, airgap, win >>

PfNext == RunAllChecks

PreflightSpec == PfInit /\ [][PfNext]_vars

FailedNames == { preflight.checks_failed[k][1] : k \in 1..Len(preflight.checks_failed) }

\* C16: run_all_checks calls every check of the list exactly once, in
\* order, whatever earlier checks returned or raised, puts every check in
\* exactly one of checks_passed and checks_failed, and returns True if and
\* only if every check passed.
C16_AllChecksRun ==
    preflight.phase = "done" =>
        /\ preflight.called = checks
        /\ Len(preflight.checks_passed) + Len(preflight.checks_failed) = Len(checks)
        /\ \A i \in 1..Len(checks) :
              /\ (preflight.outcomes[i] = "pass") = (checks[i] \in Range(preflight.checks_passed))
              /\ (preflight.outcomes[i] # "pass") = (checks[i] \in FailedNames)
        /\ (preflight.ret = "True") = (\A i \in 1..Len(checks) : preflight.outcomes[i] = "pass")

\* the first check raised, the second failed, and the last one still ran
\* and passed
C16_Witness ==
    /\ preflight.phase = "done"
    /\ preflight.outcomes[1] = "raise"
    /\ preflight.outcomes[2] = "fail"
    /\ preflight.outcomes[Len(checks)] = "pass"
    /\ checks[Len(checks)] \in Range(preflight.checks_passed)
    /\ preflight.ret = "False"

\* ------------------------------------------------------------------------
\* ConfigValidator
\* ------------------------------------------------------------------------
\* What the validators find on the target: whether /etc/ssh/sshd_config
\* exists and what "sshd -t" does, the PAM files, /etc/sudoers and what
\* "visudo -c" does, /etc/default/grub.
ValidationTargets ==
    [sshd_config_exists : BOOLEAN,
     sshd : {"valid", "invalid", "raise"},
     pam : {"valid", "nullok", "errors"},
     sudoers : {"missing", "valid", "invalid", "raise"},
     grub : {"missing", "ok", "no audit=1", "unreadable"}]

\* ConfigValidator(): empty lists
NewValidator(t) ==
    [phase |-> "new", target |-> t, ran |-> << >>,
     validation_errors |-> << >>, validation_warnings |-> << >>, ret |-> "none"]

\* Each validator gives the validator object afterwards and what the call
\* did: "True", "False" or "raise".
validate_sshd_config(v) ==
    LET v1 == [v EXCEPT !.ran = Append(@, "sshd")] IN
    IF ~v.target.sshd_config_exists
    THEN [v |-> [v1 EXCEPT !.validation_errors = Append(@, "SSH config not found")],
          val |-> "False"]
    ELSE IF v.target.sshd = "raise" THEN [v |-> v1, val |-> "raise"]
    ELSE IF v.target.sshd = "valid" THEN [v |-> v1, val |-> "True"]
    ELSE [v |-> [v1 EXCEPT !.validation_errors = Append(@, "SSH config invalid")],
          val |-> "False"]

validate_pam_config(v) ==
    LET v1 == [v EXCEPT !.ran = Append(@, "pam")] IN
    IF v.target.pam = "errors"
    THEN [v |-> [v1 EXCEPT !.validation_errors = Append(@, "Missing PAM file")],
          val |-> "False"]
    ELSE IF v.target.pam = "nullok" /\ ~cfg.DRY_RUN
    THEN [v |-> [v1 EXCEPT !.validation_warnings = Append(@, "contains 'nullok'")],
          val |-> "True"]
    ELSE [v |-> v1, val |-> "True"]

validate_sudoers(v) ==
    LET v1 == [v EXCEPT !.ran = Append(@, "sudoers")] IN
    IF v.target.sudoers = "missing"
    THEN [v |-> [v1 EXCEPT !.validation_errors = Append(@, "Sudoers file not found")],
          val |-> "False"]
    ELSE IF v.target.sudoers = "raise" THEN [v |-> v1, val |-> "raise"]
    ELSE IF v.target.sudoers = "valid" THEN [v |-> v1, val |-> "True"]
    ELSE [v |-> [v1 EXCEPT !.validation_errors = Append(@, "Sudoers invalid")],
          val |-> "False"]

validate_grub_config(v) ==
    LET v1 == [v EXCEPT !.ran = Append(@, "grub")] IN
    IF v.target.grub = "missing"
    THEN [v |-> [v1 EXCEPT !.validation_warnings = Append(@, "GRUB config not found")],
          val |-> "True"]
    ELSE IF v.target.grub = "unreadable"
    THEN [v |-> [v1 EXCEPT !.validation_errors = Append(@, "Cannot validate GRUB")],
          val |-> "False"]
    ELSE IF v.target.grub = "no audit=1"
    THEN [v |-> [v1 EXCEPT !.validation_warnings = Append(@, "GRUB missing audit=1")],
          val |-> "True"]
    ELSE [v |-> v1, val |-> "True"]

Raised(v) == [v EXCEPT !.phase = "done", !.ret = "raised"]

\* ConfigValidator.validate_all
validate_all(v0) ==
    LET r1 == IF v0.target.sshd_config_exists
              THEN validate_sshd_config(v0)
              ELSE [v |-> v0, val |-> "True"]
        r2 == validate_pam_config(r1.v)
        r3 == validate_sudoers(r2.v)
        r4 == validate_grub_config(r3.v)
        all_valid == r1.val = "True" /\ r2.val = "True" /\ r3.val = "True"
    IN
    IF r1.val = "raise" THEN Raised(r1.v)
    ELSE IF r3.val = "raise" THEN Raised(r3.v)
    ELSE [r4.v EXCEPT !.phase = "done", !.ret = IF all_valid THEN "True" ELSE "False"]

CvInit ==
    /\ RunIdle
    /\ fs = TypicalFs
    /\ RmIdle
    /\ preflight = NoUnit
    /\ sysctl = NoUnit
    /\ remote = NoUnit
    /\ airgap = NoUnit
    /\ win = NoUnit
    /\ validator \in { NewValidator(t) : t \in ValidationTargets }

\* validator.validate_all()
ValidateAll ==
    /\ validator.phase = "new"
    /\ validator' = validate_all(validator)
    /\ UNCHANGED << rmvars, runvars, preflight, sysctl, remote, airgap, win >>

CvNext == ValidateAll

ValidateSpec == CvInit /\ [][CvNext]_vars

\* C17: validate_all runs the SSH, PAM, sudoers and GRUB validators on every
\* call, whatever the earlier ones found, and returns True if and only if
\* validation_errors is empty.
C17_AllValidatorsRun ==
    validator.phase = "done" =>
        /\ validator.ran = << "sshd", "pam", "sudoers", "grub" >>
        /\ validator.ret \in {"True", "False"}
        /\ (validator.ret = "True") = (validator.validation_errors = << >>)

\* ------------------------------------------------------------------------
\* SysctlManager: the kernel parameters
\* ------------------------------------------------------------------------
NumParams == 2

\* STIG_KERNEL_PARAMS, in the order of the dictionary: name and required value
AllKernelParams ==
    << << "net.ipv4.conf.all.rp_filter", 1 >>,
       << "net.ipv4.conf.default.rp_filter", 1 >>,
       << "net.ipv4.conf.all.accept_source_route", 0 >>,
       << "net.ipv4.conf.default.accept_source_route", 0 >>,
       << "net.ipv4.conf.all.accept_redirects", 0 >>,
       << "net.ipv4.conf.default.accept_redirects", 0 >>,
       << "net.ipv4.conf.all.secure_redirects", 0 >>,
       << "net.ipv4.conf.default.secure_redirects", 0 >>,
       << "net.ipv4.conf.all.send_redirects", 0 >>,
       << "net.ipv4.conf.default.send_redirects", 0 >>,
       << "net.ipv4.icmp_echo_ignore_broadcasts", 1 >>,
       << "net.ipv4.icmp_ignore_bogus_error_responses", 1 >>,
       << "net.ipv4.tcp_syncookies", 1 >>,
       << "net.ipv4.conf.all.log_martians", 1 >>,
       << "net.ipv4.conf.default.log_martians", 1 >>,
       << "net.ipv4.ip_forward", 0 >>,
       << "net.ipv6.conf.all.accept_source_route", 0 >>,
       << "net.ipv6.conf.default.accept_source_route", 0 >>,
       << "net.ipv6.conf.all.accept_redirects", 0 >>,
       << "net.ipv6.conf.default.accept_redirects", 0 >>,
       << "net.ipv6.conf.all.forwarding", 0 >>,
       << "kernel.dmesg_restrict", 1 >>,
       << "kernel.kptr_restrict", 2 >>,
       << "kernel.yama.ptrace_scope", 1 >>,
       << "kernel.randomize_va_space", 2 >>,
       << "fs.suid_dumpable", 0 >>,
       << "net.ipv4.conf.all.arp_filter", 1 >>,
       << "net.ipv4.conf.all.arp_announce", 2 >> >>

\* The entries of the dictionary the model keeps, in dictionary order: one
\* of each prefix get_parameter_groups tells apart (net.ipv4., net.ipv6.,
\* kernel., fs.).
ParamPick == << 1, 17, 22, 26 >>

\* the parameters the loops of the model go over
STIG_KERNEL_PARAMS ==
    [i \in 1..Min(NumParams, Len(ParamPick)) |-> AllKernelParams[ParamPick[i]]]

ParamNames == { STIG_KERNEL_PARAMS[i][1] : i \in 1..Len(STIG_KERNEL_PARAMS) }

\* the values a parameter of the dictionary can hold
SysctlValues == { AllKernelParams[i][2] : i \in 1..Len(AllKernelParams) }

\* A snapshot entry: None, or the value read.
NoValue == << >>

Some(v) == << v >>

\* the value STIG_KERNEL_PARAMS requires of a parameter
Expected(p) ==
    LET i == CHOOSE j \in 1..Len(STIG_KERNEL_PARAMS) : STIG_KERNEL_PARAMS[j][1] = p
    IN STIG_KERNEL_PARAMS[i][2]

\* The persisted configuration, as verify_persistence reads it: the
\* assignment of each parameter in /etc/sysctl.conf, and in
\* /etc/sysctl.d/99-stig-v2r3.conf when that file exists.
StigConfAbsent == [exists |-> FALSE, params |-> [p \in ParamNames |-> NoValue]]

\* 99-stig-v2r3.conf as apply_stig_params writes it: "key = value" for
\* every entry of STIG_KERNEL_PARAMS
StigConfWritten == [exists |-> TRUE, params |-> [p \in ParamNames |-> Some(Expected(p))]]

\* a value other than the required one
OtherValue(p) == IF Expected(p) = 0 THEN 1 ELSE 0

Stores ==
    { [conf |-> c, stig |-> g] :
        c \in { f \in [ParamNames -> { NoValue } \cup { Some(v) : v \in SysctlValues }] :
                  \A p \in ParamNames :
                     f[p] \in { NoValue, Some(Expected(p)), Some(OtherValue(p)) } },
        g \in { StigConfAbsent, StigConfWritten } }

\* SystemModifier.run_command(self, cmd, check=True) -> Tuple[bool, str]:
\* the names a call can bind, and the attributes its result has. A call
\* with another keyword raises TypeError before the body runs; reading
\* another attribute of the tuple raises AttributeError.
RunCommandParams == { "cmd", "check" }

ResultAttrs == { }

Binds(kw) == kw \subseteq RunCommandParams

\* result = self.run_command(['sysctl', '-n', param], capture_output=True,
\* check=False), then result.returncode and result.stdout
SysctlRead(live, p) ==
    IF ~Binds({ "capture_output", "check" })
    THEN [exc |-> "TypeError", value |-> NoValue]
    ELSE IF ~({ "returncode", "stdout" } \subseteq ResultAttrs)
    THEN [exc |-> "AttributeError", value |-> NoValue]
    ELSE [exc |-> "none", value |-> Some(live[p])]

\* result = self.run_command(['sysctl', '-w', f'{param}={value}'],
\* check=False), then result.returncode: the command runs unless DRY_RUN.
SysctlWrite(live, p, v, dry) ==
    IF ~Binds({ "check" })
    THEN [exc |-> "TypeError", live |-> live]
    ELSE LET after == IF dry THEN live ELSE [live EXCEPT ![p] = v] IN
         IF "returncode" \notin ResultAttrs
         THEN [exc |-> "AttributeError", live |-> after]
         ELSE [exc |-> "none", live |-> after]

\* create_snapshot: one entry per parameter, None when reading it raised
create_snapshot(live) ==
    [parameters |-> [p \in ParamNames |-> SysctlRead(live, p).value]]

\* the loop of restore_from_snapshot: None entries are skipped, an
\* exception is caught per parameter and clears success
RECURSIVE RestoreLoop(_, _, _, _, _)
RestoreLoop(i, snapshot, live, success, dry) ==
    IF i > Len(STIG_KERNEL_PARAMS) THEN [live |-> live, success |-> success]
    ELSE LET p == STIG_KERNEL_PARAMS[i][1]
             value == snapshot.parameters[p]
         IN IF value = NoValue
            THEN RestoreLoop(i + 1, snapshot, live, success, dry)
            ELSE LET w == SysctlWrite(live, p, value[1], dry) IN
                 RestoreLoop(i + 1, snapshot, w.live, success /\ w.exc = "none", dry)

restore_from_snapshot(live, snapshot, dry) == RestoreLoop(1, snapshot, live, TRUE, dry)

\* The loop of validate_current_params: a parameter goes to 'missing' when
\* it cannot be read or when reading it raised, to 'compliant' when its
\* value is the required one, to 'non_compliant' otherwise. drift_detected
\* is set in the first and the last case, not in the exception handler.
RECURSIVE ValidateLoop(_, _, _)
ValidateLoop(i, live, acc) ==
    IF i > Len(STIG_KERNEL_PARAMS) THEN acc
    ELSE LET p == STIG_KERNEL_PARAMS[i][1]
             expected_value == STIG_KERNEL_PARAMS[i][2]
             r == SysctlRead(live, p)
         IN IF r.exc # "none"
            THEN ValidateLoop(i + 1, live, [acc EXCEPT !.missing = Append(@, p)])
            ELSE IF r.value = NoValue
            THEN ValidateLoop(i + 1, live,
                    [acc EXCEPT !.missing = Append(@, p), !.drift_detected = TRUE])
            ELSE IF r.value[1] = expected_value
            THEN ValidateLoop(i + 1, live, [acc EXCEPT !.compliant = Append(@, p)])
            ELSE ValidateLoop(i + 1, live,
                    [acc EXCEPT !.non_compliant = Append(@, p), !.drift_detected = TRUE])

validate_current_params(live) ==
    ValidateLoop(1, live, [compliant |-> << >>, non_compliant |-> << >>,
                           missing |-> << >>, drift_detected |-> FALSE])

\* verify_persistence: the files found, the parameters assigned in one of
\* them (whatever the value), those assigned in none, and then, when
\* 99-stig-v2r3.conf exists, a reload through run_command outside any try.
config_files_found(store) ==
    << "/etc/sysctl.conf" >>
        \o (IF store.stig.exists THEN << "/etc/sysctl.d/99-stig-v2r3.conf" >> ELSE << >>)

AssignedIn(store, file, p) ==
    IF file = "/etc/sysctl.conf" THEN store.conf[p] # NoValue ELSE store.stig.params[p] # NoValue

parameters_in_config(store) ==
    { p \in ParamNames :
        \E i \in 1..Len(config_files_found(store)) :
           AssignedIn(store, config_files_found(store)[i], p) }

verify_persistence(store) ==
    LET missing == SelectSeq([i \in 1..Len(STIG_KERNEL_PARAMS) |-> STIG_KERNEL_PARAMS[i][1]],
                             LAMBDA p : p \notin parameters_in_config(store))
        reload == IF store.stig.exists
                  THEN IF ~Binds({ "capture_output", "check" }) THEN "TypeError"
                       ELSE IF "returncode" \notin ResultAttrs THEN "AttributeError"
                       ELSE "none"
                  ELSE "none"
    IN [exc |-> reload, missing_from_config |-> missing,
        persistence_verified |-> (missing = << >>)]

\* detect_parameter_conflicts: its run_command calls are outside any try
detect_parameter_conflicts ==
    IF /\ \E i \in 1..Len(AllKernelParams) : AllKernelParams[i][1] = "net.ipv4.ip_forward"
       /\ ~Binds({ "capture_output", "check" })
    THEN "TypeError"
    ELSE "none"

\* REBOOT_REQUIRED_PARAMS, and the HIGH entries of PARAM_PERFORMANCE_IMPACT
REBOOT_REQUIRED_PARAMS ==
    { "kernel.randomize_va_space", "fs.suid_dumpable", "kernel.dmesg_restrict",
      "kernel.kptr_restrict" }

HighImpactParams == { "net.ipv4.ip_forward", "net.ipv6.conf.all.forwarding" }

\* the keys of PARAM_CONFLICTS
PARAM_CONFLICTS == { "net.ipv4.ip_forward", "net.ipv6.conf.all.forwarding" }

\* the names of STIG_KERNEL_PARAMS, in order, that belong to a set
NamesIn(S) ==
    SelectSeq([i \in 1..Len(STIG_KERNEL_PARAMS) |-> STIG_KERNEL_PARAMS[i][1]],
              LAMBDA p : p \in S)

\* detect_reboot_requirements and assess_performance_impact read the tables
detect_reboot_requirements ==
    [reboot_required |-> NamesIn(REBOOT_REQUIRED_PARAMS),
     reboot_recommended |-> NamesIn(REBOOT_REQUIRED_PARAMS) # << >>]

assess_performance_impact == [high_impact |-> NamesIn(HighImpactParams)]

\* report['compliance_score'] = (compliant_params / total_params) * 100.0,
\* kept as the fraction num/den; 0.0 for an empty catalog
compliance_score(compliant_params, total_params) ==
    IF total_params > 0 THEN [num |-> 100 * compliant_params, den |-> total_params]
    ELSE [num |-> 0, den |-> 1]

\* score >= b and score < b
AtLeast(score, b) == score.num >= b * score.den

Below(score, b) == score.num < b * score.den

\* the grade bands of generate_compliance_report
grade(score) ==
    IF AtLeast(score, 95) THEN "A+"
    ELSE IF AtLeast(score, 90) THEN "A"
    ELSE IF AtLeast(score, 85) THEN "B+"
    ELSE IF AtLeast(score, 80) THEN "B"
    ELSE IF AtLeast(score, 75) THEN "C+"
    ELSE IF AtLeast(score, 70) THEN "C"
    ELSE IF AtLeast(score, 60) THEN "D"
    ELSE "F"

\* _generate_recommendations(report): the entries appended, in order
Recommend(cond, priority, category) ==
    IF cond THEN << [priority |-> priority, category |-> category] >> ELSE << >>

generate_recommendations(report) ==
    Recommend(report.validation.non_compliant # << >>, "HIGH", "Compliance")
    \o Recommend(~report.persistence.persistence_verified, "HIGH", "Persistence")
    \o Recommend(report.reboot_analysis.reboot_recommended, "MEDIUM", "Reboot Required")
    \o Recommend(report.performance.high_impact # << >>, "MEDIUM", "Performance Impact")
    \o Recommend(report.conflicts.warnings # << >>, "HIGH", "Conflicts")
    \o Recommend(report.validation.missing # << >>, "MEDIUM", "Missing Parameters")
    \o Recommend(Below(report.compliance_score, 100), "HIGH", "Overall Compliance")

\* the report generate_compliance_report builds from its five sub-reports
MakeReport(validation, persistence, reboot_analysis, conflicts, performance) ==
    LET score == compliance_score(Len(validation.compliant), Len(STIG_KERNEL_PARAMS))
        report == [validation |-> validation, persistence |-> persistence,
                   reboot_analysis |-> reboot_analysis, conflicts |-> conflicts,
                   performance |-> performance, compliance_score |-> score,
                   grade |-> grade(score), recommendations |-> << >>]
    IN [report EXCEPT !.recommendations = generate_recommendations(report)]

\* generate_compliance_report: the sub-reports are computed while the
\* dictionary is built; an exception of verify_persistence or of
\* detect_parameter_conflicts escapes.
generate_compliance_report(sk) ==
    LET validation == validate_current_params(sk.live)
        persistence == verify_persistence(sk.store)
    IN IF persistence.exc # "none" THEN [exc |-> persistence.exc]
       ELSE IF detect_parameter_conflicts # "none" THEN [exc |-> detect_parameter_conflicts]
       ELSE [exc |-> "none",
             report |-> MakeReport(validation, persistence, detect_reboot_requirements,
                                   [warnings |-> NamesIn(PARAM_CONFLICTS)],
                                   assess_performance_impact)]

\* the loop of apply_stig_params over STIG_KERNEL_PARAMS: an exception
\* leaves the loop for the handler around it
RECURSIVE ApplyLoop(_, _, _, _)
ApplyLoop(i, live, attempted, dry) ==
    IF i > Len(STIG_KERNEL_PARAMS)
    THEN [live |-> live, attempted |-> attempted, exc |-> "none"]
    ELSE LET p == STIG_KERNEL_PARAMS[i][1]
             w == SysctlWrite(live, p, STIG_KERNEL_PARAMS[i][2], dry)
         IN IF w.exc # "none"
            THEN [live |-> w.live, attempted |-> Append(attempted, p), exc |-> w.exc]
            ELSE ApplyLoop(i + 1, w.live, Append(attempted, p), dry)

\* param.startswith(prefix), over the names of the dictionary, which begin
\* with one of four prefixes
StartsWith(str, prefix) ==
    CASE prefix = "net.ipv4." -> str \in { AllKernelParams[i][1] : i \in (1..16) \cup {27, 28} }
      [] prefix = "net.ipv6." -> str \in { AllKernelParams[i][1] : i \in 17..21 }
      [] prefix = "kernel."   -> str \in { AllKernelParams[i][1] : i \in 22..25 }
      [] prefix = "fs."       -> str \in { AllKernelParams[i][1] : i \in {26} }
      [] OTHER -> FALSE

\* get_parameter_groups: the group a parameter is put in
GroupNames ==
    { "ipv4_network_security", "ipv6_network_security", "kernel_security",
      "network_hardening" }

GroupOf(param) ==
    IF StartsWith(param, "net.ipv4.") THEN "ipv4_network_security"
    ELSE IF StartsWith(param, "net.ipv6.") THEN "ipv6_network_security"
    ELSE IF StartsWith(param, "kernel.") \/ StartsWith(param, "fs.") THEN "kernel_security"
    ELSE "network_hardening"

\* groups[group_name], in dictionary order
get_parameter_groups(group_name) ==
    SelectSeq(STIG_KERNEL_PARAMS, LAMBDA e : GroupOf(e[1]) = group_name)

\* the loop of apply_parameter_group over params_to_apply: result.returncode
\* is read outside any try, so an exception leaves the method
RECURSIVE GroupLoop(_, _, _, _)
GroupLoop(i, params_to_apply, live, dry) ==
    IF i > Len(params_to_apply) THEN [live |-> live, exc |-> "none"]
    ELSE LET w == SysctlWrite(live, params_to_apply[i][1], params_to_apply[i][2], dry)
         IN IF w.exc # "none" THEN [live |-> w.live, exc |-> w.exc]
            ELSE GroupLoop(i + 1, params_to_apply, w.live, dry)

\* the parameters apply_parameter_group goes over in place of the group's
ParamsToApplyWholeCatalog(group_name) == STIG_KERNEL_PARAMS

\* params_to_apply = groups[group_name]
ParamsToApply(group_name) == get_parameter_groups(group_name)

\* apply_parameter_group(group_name, dry_run)
apply_parameter_group(sk, group_name, dry_run, c) ==
    LET s0 == [sk EXCEPT !.phase = "group", !.liveAtSnapshot = sk.live,
                         !.out = [group_name |-> group_name, dry_run |-> dry_run]]
    IN IF group_name \notin GroupNames THEN [s0 EXCEPT !.ret = "False"]
       ELSE IF dry_run THEN [s0 EXCEPT !.ret = "True"]
       ELSE LET g == GroupLoop(1, ParamsToApply(group_name), sk.live, c.DRY_RUN) IN
            [s0 EXCEPT !.live = g.live,
                       !.ret = IF g.exc = "none" THEN "True" ELSE g.exc]

\* A SysctlManager on a target whose parameters hold the values live and
\* whose persisted configuration is store.
NewSysctl(live, store) ==
    [phase |-> "new", live |-> live, liveAtSnapshot |-> live, store |-> store,
     out |-> << >>,
     snapshot |-> [parameters |-> [p \in ParamNames |-> NoValue]],
     nchanges |-> 0, enable_rollback |-> FALSE, attempted |-> << >>,
     critical_errors |-> 0, confWritten |-> FALSE, changes |-> "none",
     ret |-> "none"]

\* apply_stig_params(enable_rollback): snapshot, validation and impact
\* assessment (which change nothing), conflict detection, the loop, the
\* configuration file and its reload, then the rollback decision or the
\* persistence verification. ret is what the call returned, or the
\* exception that escaped it.
apply_stig_params(sk, enable_rollback, c) ==
    LET snapshot == IF enable_rollback THEN create_snapshot(sk.live) ELSE sk.snapshot
        s0 == [sk EXCEPT !.phase = "applied", !.enable_rollback = enable_rollback,
                         !.snapshot = snapshot, !.liveAtSnapshot = sk.live]
    IN
    IF detect_parameter_conflicts # "none"
    THEN [s0 EXCEPT !.ret = detect_parameter_conflicts]
    ELSE LET a == ApplyLoop(1, sk.live, << >>, c.DRY_RUN)
             written == a.exc = "none"
             reload == IF written /\ ~Binds({ "capture_output", "check" })
                       THEN "TypeError" ELSE a.exc
             errors == IF reload # "none" THEN 1 ELSE 0
             s1 == [s0 EXCEPT !.live = a.live, !.attempted = a.attempted,
                              !.critical_errors = errors,
                              !.confWritten = written /\ ~c.DRY_RUN,
                              !.store = IF written /\ ~c.DRY_RUN
                                        THEN [@ EXCEPT !.stig = StigConfWritten]
                                        ELSE @]
         IN IF errors > 0 /\ enable_rollback /\ c.ENABLE_AUTO_ROLLBACK
            THEN LET r == restore_from_snapshot(a.live, snapshot, c.DRY_RUN) IN
                 [s1 EXCEPT !.live = r.live,
                            !.changes = IF r.success THEN "rolled back to original state"
                                        ELSE "rollback FAILED",
                            !.ret = "False"]
            ELSE IF verify_persistence(s1.store).exc # "none"
            THEN [s1 EXCEPT !.ret = verify_persistence(s1.store).exc]
            ELSE IF errors = 0
            THEN [s1 EXCEPT !.ret = "True",
                            !.changes = "Applied STIG V2R3 kernel parameters"]
            ELSE [s1 EXCEPT !.ret = "False"]

MaxChanges == 2

SkInit ==
    /\ cfg \in { [DefaultConfig EXCEPT !.DRY_RUN = d, !.ENABLE_AUTO_ROLLBACK = a] :
                   d \in BOOLEAN, a \in BOOLEAN }
    /\ pc = "idle"
    /\ tier = 0
    /\ idx = 0
    /\ all_errors = 0
    /\ all_stig_controls = << >>
    /\ result = "running"
    /\ hist = NoHistory
    /\ fs = TypicalFs
    /\ RmIdle
    /\ preflight = NoUnit
    /\ validator = NoUnit
    /\ remote = NoUnit
    /\ airgap = NoUnit
    /\ win = NoUnit
    /\ sysctl \in { NewSysctl(l, st) : l \in [ParamNames -> SysctlValues], st \in Stores }

\* snapshot = sysctl_mgr.create_snapshot()
CreateSnapshot ==
    /\ sysctl.phase = "new"
    /\ sysctl' = [sysctl EXCEPT !.phase = "snapshot",
                                !.snapshot = create_snapshot(sysctl.live),
                                !.liveAtSnapshot = sysctl.live]
    /\ UNCHANGED << rmvars, runvars, preflight, validator, remote, airgap, win >>

\* a parameter is changed on the target after the snapshot (sysctl -w)
ChangeLive ==
    /\ sysctl.phase = "snapshot"
    /\ sysctl.nchanges < MaxChanges
    /\ \E p \in ParamNames, v \in SysctlValues :
          /\ v # sysctl.live[p]
          /\ sysctl' = [sysctl EXCEPT !.live[p] = v, !.nchanges = @ + 1]
    /\ UNCHANGED << rmvars, runvars, preflight, validator, remote, airgap, win >>

\* sysctl_mgr.restore_from_snapshot(snapshot)
RestoreFromSnapshot ==
    /\ sysctl.phase = "snapshot"
    /\ LET r == restore_from_snapshot(sysctl.live, sysctl.snapshot, cfg.DRY_RUN) IN
       sysctl' = [sysctl EXCEPT !.phase = "restored", !.live = r.live,
                                !.ret = IF r.success THEN "True" ELSE "False"]
    /\ UNCHANGED << rmvars, runvars, preflight, validator, remote, airgap, win >>

\* sysctl_mgr.apply_stig_params(enable_rollback)
ApplyStigParams ==
    /\ sysctl.phase = "new"
    /\ \E enable_rollback \in BOOLEAN :
          sysctl' = apply_stig_params(sysctl, enable_rollback, cfg)
    /\ UNCHANGED << rmvars, runvars, preflight, validator, remote, airgap, win >>

\* sysctl_mgr.validate_current_params()
ValidateCurrentParams ==
    /\ sysctl.phase = "new"
    /\ sysctl' = [sysctl EXCEPT !.phase = "validated",
                                !.out = validate_current_params(sysctl.live)]
    /\ UNCHANGED << rmvars, runvars, preflight, validator, remote, airgap, win >>

\* sysctl_mgr.verify_persistence()
VerifyPersistence ==
    /\ sysctl.phase = "new"
    /\ sysctl' = [sysctl EXCEPT !.phase = "verified",
                                !.out = verify_persistence(sysctl.store),
                                !.ret = IF verify_persistence(sysctl.store).exc = "none"
                                        THEN "dict"
                                        ELSE verify_persistence(sysctl.store).exc]
    /\ UNCHANGED << rmvars, runvars, preflight, validator, remote, airgap, win >>

\* sysctl_mgr.generate_compliance_report()
GenerateComplianceReport ==
    /\ sysctl.phase = "new"
    /\ LET r == generate_compliance_report(sysctl) IN
       sysctl' = [sysctl EXCEPT !.phase = "reported", !.out = r,
                                !.ret = IF r.exc = "none" THEN "dict" ELSE r.exc]
    /\ UNCHANGED << rmvars, runvars, preflight, validator, remote, airgap, win >>

\* sysctl_mgr.apply_parameter_group(group_name, dry_run)
ApplyParameterGroup ==
    /\ sysctl.phase = "new"
    /\ \E group_name \in GroupNames \cup { "no_such_group" }, dry_run \in BOOLEAN :
          sysctl' = apply_parameter_group(sysctl, group_name, dry_run, cfg)
    /\ UNCHANGED << rmvars, runvars, preflight, validator, remote, airgap, win >>

SkNext ==
    \/ CreateSnapshot
    \/ ChangeLive
    \/ RestoreFromSnapshot
    \/ ApplyStigParams
    \/ ValidateCurrentParams
    \/ VerifyPersistence
    \/ GenerateComplianceReport
    \/ ApplyParameterGroup

SysctlSpec == SkInit /\ [][SkNext]_vars

\* C18 as stated: apply_stig_params called with rollback enabled returns
\* True when neither setting a live value nor reloading the configuration
\* produced an error, and otherwise puts the live values back to the
\* snapshot and returns False.
C18_ApplyRollsBackOrSucceeds ==
    (sysctl.phase = "applied" /\ sysctl.enable_rollback) =>
        IF sysctl.critical_errors > 0
        THEN sysctl.live = sysctl.liveAtSnapshot /\ sysctl.ret = "False"
        ELSE sysctl.ret = "True"

\* C19 as stated: apply_stig_params attempts to set the live value of every
\* parameter of STIG_KERNEL_PARAMS, whatever happened to the earlier ones.
C19_EveryParamAttempted ==
    sysctl.phase = "applied" => Range(sysctl.attempted) = ParamNames

\* C20 as stated: after create_snapshot and later changes to the live
\* values, restore_from_snapshot of that snapshot leaves every parameter at
\* the value it had when the snapshot was taken.
C20_SnapshotRoundTrip ==
    (sysctl.phase = "restored" /\ ~cfg.DRY_RUN) => sysctl.live = sysctl.liveAtSnapshot

\* how often a parameter occurs in a list of the validation result
Occurrences(seq, p) == Cardinality({ i \in 1..Len(seq) : seq[i] = p })

\* C23 as stated: validate_current_params puts every parameter of
\* STIG_KERNEL_PARAMS in exactly one of compliant, non_compliant and missing,
\* and reports drift if and only if a parameter is non-compliant or
\* unreadable.
C23_ValidationPartitionAndDrift ==
    sysctl.phase = "validated" =>
        /\ \A p \in ParamNames :
              Occurrences(sysctl.out.compliant, p)
                + Occurrences(sysctl.out.non_compliant, p)
                + Occurrences(sysctl.out.missing, p) = 1
        /\ sysctl.out.drift_detected =
              (sysctl.out.non_compliant # << >> \/ sysctl.out.missing # << >>)

\* the parameters whose required value no persisted configuration file holds
NotPersisted(store) ==
    { p \in ParamNames :
        /\ store.conf[p] # Some(Expected(p))
        /\ store.stig.params[p] # Some(Expected(p)) }

\* C24 as stated: verify_persistence returns a report whose missing entries
\* are exactly the parameters whose required value is in no persisted
\* configuration file, whatever the live values are.
C24_MissingIffNotPersisted ==
    sysctl.phase = "verified" =>
        /\ sysctl.ret = "dict"
        /\ Range(sysctl.out.missing_from_config) = NotPersisted(sysctl.store)

\* the parameters whose live value is the required one
CompliantParams(live) == { p \in ParamNames : live[p] = Expected(p) }

\* C25 as stated: for N parameters of which C hold the required value,
\* generate_compliance_report returns a report whose score is 100*C/N and
\* whose grade is the band of that score.
C25_ScoreAndGrade ==
    sysctl.phase = "reported" =>
        /\ sysctl.ret = "dict"
        /\ sysctl.out.report.compliance_score.num * Cardinality(ParamNames)
              = 100 * Cardinality(CompliantParams(sysctl.live))
                  * sysctl.out.report.compliance_score.den
        /\ sysctl.out.report.grade = grade(sysctl.out.report.compliance_score)

\* ------------------------------------------------------------------------
\* SysctlManager._generate_recommendations on the reports
\* generate_compliance_report can hand to it
\* ------------------------------------------------------------------------

\* validation results: each parameter in one of the three lists
Classified(class, c) ==
    SelectSeq([i \in 1..Len(STIG_KERNEL_PARAMS) |-> STIG_KERNEL_PARAMS[i][1]],
              LAMBDA p : class[p] = c)

Validations ==
    { [compliant |-> Classified(class, "compliant"),
       non_compliant |-> Classified(class, "non_compliant"),
       missing |-> Classified(class, "missing"),
       drift_detected |-> \E p \in ParamNames : class[p] # "compliant"] :
        class \in [ParamNames -> { "compliant", "non_compliant", "missing" }] }

\* persistence results: parameters missing from the files, or none missing
\* and the reload of 99-stig-v2r3.conf failing or not
Persistences ==
    { [exc |-> "none", missing_from_config |-> NamesIn(S),
       persistence_verified |-> (S = {} /\ loads)] :
        S \in SUBSET ParamNames, loads \in BOOLEAN }

\* the entries of a sub-report that may be empty or not
SomeOrNone == { << >>, << "net.ipv4.ip_forward" >> }

Reports ==
    { MakeReport(v, pers,
                 [reboot_required |-> rb, reboot_recommended |-> rb # << >>],
                 [warnings |-> w], [high_impact |-> hi]) :
        v \in Validations, pers \in Persistences, rb \in SomeOrNone,
        w \in SomeOrNone, hi \in SomeOrNone }

RcInit ==
    /\ RunIdle
    /\ fs = TypicalFs
    /\ RmIdle
    /\ preflight = NoUnit
    /\ validator = NoUnit
    /\ remote = NoUnit
    /\ airgap = NoUnit
    /\ win = NoUnit
    /\ sysctl \in { [phase |-> "report",
                     out |-> [r EXCEPT !.recommendations = << >>]] : r \in Reports }

\* report['recommendations'] = self._generate_recommendations(report)
GenerateRecommendations ==
    /\ sysctl.phase = "report"
    /\ sysctl' = [phase |-> "recommended",
                  out |-> [sysctl.out EXCEPT
                              !.recommendations = generate_recommendations(sysctl.out)]]
    /\ UNCHANGED << rmvars, runvars, preflight, validator, remote, airgap, win >>

RcNext == GenerateRecommendations

RecommendSpec == RcInit /\ [][RcNext]_vars

\* the categories of the six sub-reports that are not empty
NonEmptySubReports(report) ==
    (IF report.validation.non_compliant # << >> THEN { "Compliance" } ELSE {})
    \cup (IF report.persistence.missing_from_config # << >> THEN { "Persistence" } ELSE {})
    \cup (IF report.reboot_analysis.reboot_required # << >> THEN { "Reboot Required" } ELSE {})
    \cup (IF report.performance.high_impact # << >> THEN { "Performance Impact" } ELSE {})
    \cup (IF report.conflicts.warnings # << >> THEN { "Conflicts" } ELSE {})
    \cup (IF report.validation.missing # << >> THEN { "Missing Parameters" } ELSE {})

\* C26 as stated: the recommendations of a report are one per non-empty
\* sub-report among non-compliance, persistence gaps, reboot-required
\* items, high-impact items, conflicts and unreadable parameters, and no
\* other.
C26_RecommendationsFromSubReports ==
    sysctl.phase = "recommended" =>
        /\ Len(sysctl.out.recommendations)
              = Cardinality(NonEmptySubReports(sysctl.out))
        /\ { sysctl.out.recommendations[i].category :
               i \in 1..Len(sysctl.out.recommendations) }
              = NonEmptySubReports(sysctl.out)

\* the score generate_compliance_report computes from the live values
ReportedScore(live) ==
    compliance_score(Len(validate_current_params(live).compliant), Len(STIG_KERNEL_PARAMS))

\* C21 as stated: when every parameter holds its required value and is
\* persisted with it, apply_stig_params returns, records no change, and the
\* compliance score is 100 afterwards.
C21_ReapplyIsIdempotent ==
    (/\ sysctl.phase = "applied"
     /\ CompliantParams(sysctl.liveAtSnapshot) = ParamNames
     /\ NotPersisted(sysctl.store) = {}) =>
        /\ sysctl.ret \in { "True", "False" }
        /\ sysctl.changes = "none"
        /\ ~Below(ReportedScore(sysctl.live), 100)

\* C22 as stated: when some parameters do not hold their required value and
\* no set, write or reload step fails, apply_stig_params in a run that is
\* not a dry run returns True, every parameter holds its required value
\* afterwards with a score of 100, and verify_persistence finds no
\* parameter missing.
C22_ApplyMakesCompliant ==
    (/\ sysctl.phase = "applied"
     /\ ~cfg.DRY_RUN
     /\ CompliantParams(sysctl.liveAtSnapshot) # ParamNames) =>
        /\ sysctl.ret = "True"
        /\ CompliantParams(sysctl.live) = ParamNames
        /\ ~Below(ReportedScore(sysctl.live), 100)
        /\ verify_persistence(sysctl.store).missing_from_config = << >>

\* C27: apply_parameter_group changes no live value outside the named
\* group and never the persisted configuration; called with dry_run it
\* changes no live value at all; for a group name that does not exist it
\* returns False and changes nothing.
C27_GroupFrame ==
    [][ (sysctl.phase = "new" /\ sysctl'.phase = "group") =>
          /\ sysctl'.store = sysctl.store
          /\ \A p \in ParamNames :
                GroupOf(p) # sysctl'.out.group_name => sysctl'.live[p] = sysctl.live[p]
          /\ sysctl'.out.dry_run => sysctl'.live = sysctl.live
          /\ sysctl'.out.group_name \notin GroupNames =>
                (sysctl'.ret = "False" /\ sysctl'.live = sysctl.live) ]_vars

\* a live application of a group changed a parameter of the group and left
\* alone a parameter of another group that does not hold its required value
C27_Witness ==
    /\ sysctl.phase = "group"
    /\ ~sysctl.out.dry_run
    /\ \E p \in ParamNames :
          /\ GroupOf(p) = sysctl.out.group_name
          /\ sysctl.live[p] # sysctl.liveAtSnapshot[p]
    /\ \E q \in ParamNames :
          /\ GroupOf(q) # sysctl.out.group_name
          /\ sysctl.live[q] # Expected(q)

\* ---------------------------------------------------------------------------
\* RemoteExecutor: the remediation script is delivered to every host over SSH
\* and run there, by a thread pool or host after host
\* ---------------------------------------------------------------------------

NumHosts == 2

\* STIGConfig.REMOTE_HOSTS, in the order add_host received them
Hosts == 1..NumHosts

AuthMethods == {"key", "password", "none"}

\* the answer typed at the "Continue to next host?" prompt of execute_serial
Responses == {"y", "n"}

ConnectOutcomes == {"ok", "AuthenticationException", "SSHException", "Exception"}

\* exit status of the remote script, or an exception (a timeout among them)
\* raised while the command was sent or its output read
CommandOutcomes == {"zero", "nonzero", "raised"}

RemoteHost ==
    [pc |-> "queued", ssh_client |-> FALSE, connected |-> FALSE,
     errors |-> << >>, result |-> "none", acquired |-> FALSE,
     delivered |-> "none", rc |-> "none", removal |-> "none",
     closed |-> FALSE]

NewRemote(parallel, workers, paramiko, auth, force, response, no_sudo) ==
    [phase |-> "new", REMOTE_PARALLEL |-> parallel, max_workers |-> workers,
     PARAMIKO_AVAILABLE |-> paramiko, auth |-> auth, no_sudo |-> no_sudo,
     FORCE_IGNORE_ERRORS |-> force, response |-> response,
     host |-> [h \in Hosts |-> RemoteHost],
     failed_hosts |-> << >>, successful_hosts |-> << >>,
     all_successful |-> TRUE, collected |-> {}, aborted |-> FALSE]

\* the outcomes connect_host can have for this executor's configuration
ConnectChoices(rx) ==
    IF ~rx.PARAMIKO_AVAILABLE THEN {"unavailable"}
    ELSE IF rx.auth = "none" THEN {"no_auth"}
    ELSE ConnectOutcomes

connect_host(host, outcome) ==
    IF outcome \in {"unavailable", "no_auth"}
    THEN [ret |-> FALSE, host |-> host]
    ELSE IF outcome = "ok"
    THEN [ret |-> TRUE,
          host |-> [host EXCEPT !.ssh_client = TRUE, !.connected = TRUE,
                                !.acquired = TRUE]]
    ELSE [ret |-> FALSE,
          host |-> [host EXCEPT !.errors =
                       Append(@, IF outcome = "AuthenticationException"
                                 THEN "Authentication failed"
                                 ELSE IF outcome = "SSHException"
                                 THEN "SSH error"
                                 ELSE "Connection error")]]

disconnect_host(host, close_raises) ==
    IF ~host.ssh_client THEN host
    ELSE IF close_raises THEN [host EXCEPT !.closed = TRUE]
    ELSE [host EXCEPT !.closed = TRUE, !.connected = FALSE]

\* rc is the first component of the tuple execute_command returns
execute_command(host, outcome, check_error, force) ==
    IF ~host.connected \/ ~host.ssh_client
    THEN [rc |-> 1, host |-> host]
    ELSE IF outcome = "raised"
    THEN [rc |-> 1, host |-> [host EXCEPT !.errors = Append(@, "command raised")]]
    ELSE IF outcome = "nonzero"
    THEN [rc |-> 2,
          host |-> IF check_error /\ ~force
                   THEN [host EXCEPT !.errors = Append(@, "command failed")]
                   ELSE host]
    ELSE [rc |-> 0, host |-> host]

transfer_script(host, ok) ==
    IF ~host.connected \/ ~host.ssh_client
    THEN [ret |-> FALSE, host |-> host]
    ELSE IF ok
    THEN [ret |-> TRUE, host |-> [host EXCEPT !.delivered = "put"]]
    ELSE [ret |-> FALSE,
          host |-> [host EXCEPT !.errors = Append(@, "File transfer error"),
                                !.delivered = "failed"]]

\* every remote command is sent as "sudo <command>": on a host where
\* REMOTE_USER may not use sudo it cannot exit with 0
CommandChoices(rx, h) ==
    IF h \in rx.no_sudo THEN CommandOutcomes \ {"zero"} ELSE CommandOutcomes

\* hosts whose execute_on_host is running in some thread
Running(rx) ==
    { h \in Hosts : rx.host[h].pc \in {"connect", "transfer", "exec", "rm"} }

\* a fail-fast pool: no task is started once a sibling has returned False
CanStartFailFast(rx, h) ==
    IF rx.REMOTE_PARALLEL
    THEN /\ \A g \in Hosts : g < h => rx.host[g].pc # "queued"
         /\ Cardinality(Running(rx)) < rx.max_workers
         /\ \A g \in Hosts : rx.host[g].result # "false"
    ELSE /\ \A g \in Hosts : g < h => g \in rx.collected
         /\ ~rx.aborted

\* a pool that starts a thread for every submitted task
CanStartUnbounded(rx, h) ==
    IF rx.REMOTE_PARALLEL
    THEN \A g \in Hosts : g < h => rx.host[g].pc # "queued"
    ELSE /\ \A g \in Hosts : g < h => g \in rx.collected
         /\ ~rx.aborted

\* a serial loop that never breaks out
CanStartIgnoringAbort(rx, h) ==
    IF rx.REMOTE_PARALLEL
    THEN /\ \A g \in Hosts : g < h => rx.host[g].pc # "queued"
         /\ Cardinality(Running(rx)) < rx.max_workers
    ELSE \A g \in Hosts : g < h => g \in rx.collected

\* the pool hands the submitted tasks to its workers in submission order, a
\* task waiting while max_workers tasks run; the serial loop reaches a host
\* after the hosts before it, unless it broke out
CanStart(rx, h) ==
    IF rx.REMOTE_PARALLEL
    THEN /\ \A g \in Hosts : g < h => rx.host[g].pc # "queued"
         /\ Cardinality(Running(rx)) < rx.max_workers
    ELSE /\ \A g \in Hosts : g < h => g \in rx.collected
         /\ ~rx.aborted

\* main builds the executor and calls execute_parallel or execute_serial
ExecuteOnHosts ==
    /\ remote.phase = "new"
    /\ remote' = [remote EXCEPT !.phase = "running"]
    /\ UNCHANGED << rmvars, runvars, preflight, validator, sysctl, airgap, win >>

\* execute_on_host is entered for host h
TaskStart(h) ==
    /\ remote.phase = "running"
    /\ remote.host[h].pc = "queued"
    /\ CanStart(remote, h)
    /\ remote' = [remote EXCEPT !.host[h].pc =
                      IF remote.host[h].connected THEN "transfer" ELSE "connect"]
    /\ UNCHANGED << rmvars, runvars, preflight, validator, sysctl, airgap, win >>

\* execute_on_host: "if not self.connect_host(host): return False"
TaskConnect(h) ==
    /\ remote.phase = "running"
    /\ remote.host[h].pc = "connect"
    /\ \E outcome \in ConnectChoices(remote) :
          LET r == connect_host(remote.host[h], outcome) IN
          remote' = [remote EXCEPT !.host[h] =
                        IF r.ret THEN [r.host EXCEPT !.pc = "transfer"]
                        ELSE [r.host EXCEPT !.pc = "done", !.result = "false"]]
    /\ UNCHANGED << rmvars, runvars, preflight, validator, sysctl, airgap, win >>

\* execute_on_host: "if not self.transfer_script(host, script_path): return
\* False", inside the try whose finally removes the script
TaskTransfer(h) ==
    /\ remote.phase = "running"
    /\ remote.host[h].pc = "transfer"
    /\ \E ok \in BOOLEAN :
          LET r == transfer_script(remote.host[h], ok) IN
          remote' = [remote EXCEPT !.host[h] =
                        IF r.ret THEN [r.host EXCEPT !.pc = "exec"]
                        ELSE [r.host EXCEPT !.pc = "rm", !.result = "false"]]
    /\ UNCHANGED << rmvars, runvars, preflight, validator, sysctl, airgap, win >>

\* execute_on_host: the remote command and the two lists of the executor
TaskExec(h) ==
    /\ remote.phase = "running"
    /\ remote.host[h].pc = "exec"
    /\ \E outcome \in CommandChoices(remote, h) :
          LET r == execute_command(remote.host[h], outcome, FALSE,
                                   remote.FORCE_IGNORE_ERRORS)
              rcname == IF r.rc = 0 THEN "zero" ELSE outcome
          IN  remote' = [remote EXCEPT
                  !.host[h] = [r.host EXCEPT !.pc = "rm", !.rc = rcname,
                                  !.result = IF r.rc = 0 THEN "true" ELSE "false"],
                  !.successful_hosts = IF r.rc = 0 THEN Append(@, h) ELSE @,
                  !.failed_hosts = IF r.rc = 0 THEN @ ELSE Append(@, h)]
    /\ UNCHANGED << rmvars, runvars, preflight, validator, sysctl, airgap, win >>

\* execute_on_host: the finally clause
TaskRemove(h) ==
    /\ remote.phase = "running"
    /\ remote.host[h].pc = "rm"
    /\ \E outcome \in CommandChoices(remote, h) :
          LET r == execute_command(remote.host[h], outcome, FALSE,
                                   remote.FORCE_IGNORE_ERRORS) IN
          remote' = [remote EXCEPT !.host[h] =
                        [r.host EXCEPT !.pc = "done",
                            !.removal = IF outcome = "raised" THEN "raised"
                                        ELSE "run"]]
    /\ UNCHANGED << rmvars, runvars, preflight, validator, sysctl, airgap, win >>

\* the coordinator takes the value a finished task returned: the as_completed
\* loop of execute_parallel, the loop body of execute_serial
Collect(h) ==
    /\ remote.phase = "running"
    /\ remote.host[h].pc = "done"
    /\ h \notin remote.collected
    /\ remote' = [remote EXCEPT
           !.collected = @ \cup {h},
           !.all_successful = @ /\ remote.host[h].result = "true",
           !.aborted = IF /\ ~remote.REMOTE_PARALLEL
                          /\ remote.host[h].result = "false"
                          /\ ~remote.FORCE_IGNORE_ERRORS
                          /\ remote.response # "y"
                       THEN TRUE ELSE @]
    /\ UNCHANGED << rmvars, runvars, preflight, validator, sysctl, airgap, win >>

\* execute_parallel leaves its with block when every future is done;
\* execute_serial returns at the end of the list or at its break
ExecuteReturns ==
    /\ remote.phase = "running"
    /\ IF remote.REMOTE_PARALLEL THEN remote.collected = Hosts
       ELSE remote.collected = Hosts \/ remote.aborted
    /\ remote' = [remote EXCEPT !.phase = "returned"]
    /\ UNCHANGED << rmvars, runvars, preflight, validator, sysctl, airgap, win >>

\* main's finally clause: RemoteExecutor.cleanup
Cleanup ==
    /\ remote.phase = "returned"
    /\ \E raising \in SUBSET { h \in Hosts : remote.host[h].connected } :
          remote' = [remote EXCEPT
              !.phase = "cleaned",
              !.host = [h \in Hosts |->
                          IF remote.host[h].connected
                          THEN disconnect_host(remote.host[h], h \in raising)
                          ELSE remote.host[h]]]
    /\ UNCHANGED << rmvars, runvars, preflight, validator, sysctl, airgap, win >>

\* the hosts where REMOTE_USER may not use sudo: none of them, or the first
NoSudoSets == { {}, {1} }

\* --remote-workers matters to execute_parallel only, FORCE_IGNORE_ERRORS and
\* the typed answer to execute_serial only
RemoteRuns ==
    { NewRemote(TRUE, workers, paramiko, auth, FALSE, "y", no_sudo) :
         workers \in 1..NumHosts, paramiko \in BOOLEAN, auth \in AuthMethods,
         no_sudo \in NoSudoSets }
    \cup
    { NewRemote(FALSE, 1, paramiko, auth, force, response, no_sudo) :
         paramiko \in BOOLEAN, auth \in AuthMethods,
         force \in BOOLEAN, response \in Responses, no_sudo \in NoSudoSets }

RxInit ==
    /\ RunIdle
    /\ fs = TypicalFs
    /\ RmIdle
    /\ preflight = NoUnit
    /\ validator = NoUnit
    /\ sysctl = NoUnit
    /\ airgap = NoUnit
    /\ win = NoUnit
    /\ remote \in RemoteRuns

RxNext ==
    \/ ExecuteOnHosts
    \/ \E h \in Hosts : TaskStart(h)
    \/ \E h \in Hosts : TaskConnect(h)
    \/ \E h \in Hosts : TaskTransfer(h)
    \/ \E h \in Hosts : TaskExec(h)
    \/ \E h \in Hosts : TaskRemove(h)
    \/ \E h \in Hosts : Collect(h)
    \/ ExecuteReturns
    \/ Cleanup

RemoteSpec == RxInit /\ [][RxNext]_vars

\* the runs started with --remote-parallel: paramiko installed, a key file
\* given or no authentication method at all
ParallelRuns ==
    { rx \in RemoteRuns : /\ rx.REMOTE_PARALLEL
                          /\ rx.PARAMIKO_AVAILABLE
                          /\ rx.auth # "password" }

RxParallelInit ==
    /\ RxInit
    /\ remote \in ParallelRuns

\* the worker threads and the coordinating thread are scheduled and every
\* SSH call returns or raises within its timeout: a step that stays possible
\* is taken
RemoteFairSpec == RxParallelInit /\ [][RxNext]_vars /\ WF_vars(RxNext)

\* ---------------------------------------------------------------------------
\* CompleteAirGapSTIGExecutor (airgap_complete_executor.py): one target, the
\* packages and the script delivered over one SSH connection
\* ---------------------------------------------------------------------------

NumDebs == 2

\* what the operator does at a prompt: the expected word, another answer, or
\* Ctrl-C (KeyboardInterrupt, which "except Exception" does not catch)
ConfirmAnswers == {"EXECUTE", "other", "interrupt"}

CleanupAnswers == {"y", "other", "interrupt"}

NewAirgap(script_exists, packages_dir_exists, debs) ==
    [phase |-> "new", script_exists |-> script_exists,
     packages_dir_exists |-> packages_dir_exists, debs |-> debs,
     client |-> FALSE, connected |-> FALSE, acquired |-> FALSE,
     packages_delivered |-> 0, script_delivered |-> FALSE,
     executed |-> "none", removal |-> "none", closed |-> FALSE,
     ret |-> "none"]

check_package_structure(ag) == ag.script_exists /\ ag.packages_dir_exists

test_connection(ag, ok) ==
    IF ok THEN [ag EXCEPT !.client = TRUE, !.connected = TRUE, !.acquired = TRUE]
    ELSE [ag EXCEPT !.client = TRUE]

\* delivered is the number of .deb files sftp.put copied, or -1 when mkdir or
\* open_sftp raised before the first of them
transfer_ubuntu_packages(ag, delivered) ==
    IF ag.debs = 0 THEN [ret |-> TRUE, ag |-> ag]
    ELSE IF delivered < 0 THEN [ret |-> FALSE, ag |-> ag]
    ELSE [ret |-> delivered > 0, ag |-> [ag EXCEPT !.packages_delivered = delivered]]

transfer_stig_script(ag, ok) ==
    IF ~ag.script_exists THEN [ret |-> FALSE, ag |-> ag]
    ELSE IF ok THEN [ret |-> TRUE, ag |-> [ag EXCEPT !.script_delivered = TRUE]]
    ELSE [ret |-> FALSE, ag |-> ag]

confirm_execution(response) == response = "EXECUTE"

\* the rm commands run only after the answer "y"; an exception of theirs is
\* caught, a KeyboardInterrupt at the prompt is not
cleanup(ag, answer, raised) ==
    IF answer = "y"
    THEN [ag EXCEPT !.removal = IF raised THEN "raised" ELSE "run"]
    ELSE [ag EXCEPT !.removal = "skipped"]

close(ag) ==
    IF ag.client THEN [ag EXCEPT !.connected = FALSE, !.closed = TRUE]
    ELSE ag

\* run() returns a value to main
Returned(ag, value) == [ag EXCEPT !.phase = "done", !.ret = value]

\* an exception left run(): main prints it, closes the connection, returns 1
MainHandler(ag) == [close(ag) EXCEPT !.phase = "done", !.ret = "exception"]

\* run: check_package_structure and get_connection_info
AirgapPrepare ==
    /\ airgap.phase = "new"
    /\ \E info_ok \in BOOLEAN :
          airgap' = IF check_package_structure(airgap) /\ info_ok
                    THEN [airgap EXCEPT !.phase = "test_connection"]
                    ELSE Returned(airgap, "false")
    /\ UNCHANGED << rmvars, runvars, preflight, validator, sysctl, remote, win >>

AirgapTestConnection ==
    /\ airgap.phase = "test_connection"
    /\ \E ok \in BOOLEAN :
          LET ag == test_connection(airgap, ok) IN
          airgap' = IF ok THEN [ag EXCEPT !.phase = "transfer_ubuntu_packages"]
                    ELSE Returned(ag, "false")
    /\ UNCHANGED << rmvars, runvars, preflight, validator, sysctl, remote, win >>

\* run goes on whatever transfer_ubuntu_packages returns
AirgapTransferPackages ==
    /\ airgap.phase = "transfer_ubuntu_packages"
    /\ \E delivered \in -1..airgap.debs :
          airgap' = [transfer_ubuntu_packages(airgap, delivered).ag
                        EXCEPT !.phase = "transfer_stig_script"]
    /\ UNCHANGED << rmvars, runvars, preflight, validator, sysctl, remote, win >>

\* run: "if not self.transfer_stig_script(): return False"
AirgapTransferScript ==
    /\ airgap.phase = "transfer_stig_script"
    /\ \E ok \in BOOLEAN :
          LET r == transfer_stig_script(airgap, ok) IN
          airgap' = IF r.ret THEN [r.ag EXCEPT !.phase = "confirm_execution"]
                    ELSE Returned(r.ag, "false")
    /\ UNCHANGED << rmvars, runvars, preflight, validator, sysctl, remote, win >>

\* run: "if not self.confirm_execution(): self.close(); return False"
AirgapConfirm ==
    /\ airgap.phase = "confirm_execution"
    /\ \E response \in ConfirmAnswers :
          airgap' = IF response = "interrupt" THEN MainHandler(airgap)
                    ELSE IF confirm_execution(response)
                    THEN [airgap EXCEPT !.phase = "execute_stig"]
                    ELSE Returned(close(airgap), "false")
    /\ UNCHANGED << rmvars, runvars, preflight, validator, sysctl, remote, win >>

AirgapExecute ==
    /\ airgap.phase = "execute_stig"
    /\ \E outcome \in CommandOutcomes :
          airgap' = [airgap EXCEPT !.phase = "cleanup", !.executed = outcome]
    /\ UNCHANGED << rmvars, runvars, preflight, validator, sysctl, remote, win >>

AirgapCleanup ==
    /\ airgap.phase = "cleanup"
    /\ \E answer \in CleanupAnswers, raised \in BOOLEAN :
          airgap' = IF answer = "interrupt" THEN MainHandler(airgap)
                    ELSE [cleanup(airgap, answer, raised) EXCEPT !.phase = "close"]
    /\ UNCHANGED << rmvars, runvars, preflight, validator, sysctl, remote, win >>

\* run: self.close() and "return success"
AirgapClose ==
    /\ airgap.phase = "close"
    /\ airgap' = Returned(close(airgap),
                          IF airgap.executed = "zero" THEN "true" ELSE "false")
    /\ UNCHANGED << rmvars, runvars, preflight, validator, sysctl, remote, win >>

AgInit ==
    /\ RunIdle
    /\ fs = TypicalFs
    /\ RmIdle
    /\ preflight = NoUnit
    /\ validator = NoUnit
    /\ sysctl = NoUnit
    /\ remote = NoUnit
    /\ win = NoUnit
    /\ airgap \in { NewAirgap(s, d, n) :
                       s \in BOOLEAN, d \in BOOLEAN, n \in 0..NumDebs }

AgNext ==
    \/ AirgapPrepare
    \/ AirgapTestConnection
    \/ AirgapTransferPackages
    \/ AirgapTransferScript
    \/ AirgapConfirm
    \/ AirgapExecute
    \/ AirgapCleanup
    \/ AirgapClose

AirgapSpec == AgInit /\ [][AgNext]_vars

\* the serial loop goes on after a failed host: errors are ignored by
\* configuration or the operator answers "y"; the pool always goes on
ContinuePolicy(rx) ==
    rx.REMOTE_PARALLEL \/ rx.FORCE_IGNORE_ERRORS \/ rx.response = "y"

\* C28: once execute_parallel, or execute_serial under a continue policy, has
\* returned, every host of the input list is in exactly one of
\* successful_hosts and failed_hosts, exactly once; a host whose connection,
\* delivery or remote command failed is in failed_hosts, and every host in
\* failed_hosts has an error recorded in its errors list
C28_OneResultPerHost ==
    (remote.phase \in {"returned", "cleaned"} /\ ContinuePolicy(remote)) =>
        \A h \in Hosts :
            /\ Occurrences(remote.successful_hosts, h)
                 + Occurrences(remote.failed_hosts, h) = 1
            /\ remote.host[h].result = "false" =>
                 Occurrences(remote.failed_hosts, h) = 1
            /\ Occurrences(remote.failed_hosts, h) = 1 =>
                 remote.host[h].errors # << >>

\* a host of a parallel run failed on its transport: its connection or its
\* delivery raised, or its remote command raised or timed out
TransportFailed(host) ==
    /\ host.errors # << >>
    /\ host.result = "false"
    /\ host.rc \in {"none", "raised"}

\* C29: in a parallel run, (1) a queued task whose turn has come and for which
\* a worker is free can be started whatever happened to the other hosts, (2) a
\* started task can always take its next step, (3) the run returns only when
\* every host's task has run to its end, and (4) a host is in failed_hosts
\* only for the outcome of its own remote command, while a host whose remote
\* command exited with 0 is in successful_hosts
C29_SiblingsUnaffected ==
    (remote.phase # "idle" /\ remote.phase # "new" /\ remote.REMOTE_PARALLEL) =>
        /\ remote.phase = "running" =>
              \A h \in Hosts :
                 /\ ( /\ remote.host[h].pc = "queued"
                      /\ \A g \in Hosts : g < h => remote.host[g].pc # "queued"
                      /\ Cardinality(Running(remote)) < remote.max_workers )
                      => ENABLED TaskStart(h)
                 /\ remote.host[h].pc = "connect" => ENABLED TaskConnect(h)
                 /\ remote.host[h].pc = "transfer" => ENABLED TaskTransfer(h)
                 /\ remote.host[h].pc = "exec" => ENABLED TaskExec(h)
                 /\ remote.host[h].pc = "rm" => ENABLED TaskRemove(h)
        /\ remote.phase = "running" =>
              ENABLED (ExecuteReturns \/ \E h \in Hosts :
                          \/ TaskStart(h) \/ TaskConnect(h) \/ TaskTransfer(h)
                          \/ TaskExec(h) \/ TaskRemove(h) \/ Collect(h))
        /\ remote.phase \in {"returned", "cleaned"} =>
              \A h \in Hosts : remote.host[h].pc = "done"
        /\ \A h \in Hosts :
              /\ Occurrences(remote.failed_hosts, h) > 0 =>
                    remote.host[h].rc \in {"nonzero", "raised"}
              /\ remote.host[h].rc = "zero" =>
                    Occurrences(remote.successful_hosts, h) = 1

\* a parallel run with a single worker has returned: the first host's
\* transport failed, the second host's task was started after that, ran its
\* remote command with exit status 0 and is among the successful hosts
C29_Witness ==
    /\ remote.phase = "returned"
    /\ remote.REMOTE_PARALLEL
    /\ remote.max_workers = 1
    /\ TransportFailed(remote.host[1])
    /\ remote.host[2].rc = "zero"
    /\ remote.host[2].pc = "done"
    /\ Occurrences(remote.successful_hosts, 2) = 1

\* C30: when the run of a coordinator has ended, for every target whose SSH
\* connection was established the removal of the delivered files has been
\* attempted and the connection has been closed: stated for the run of
\* CompleteAirGapSTIGExecutor, whose end is run() having returned to main or
\* main having handled its exception
C30_RemovedAndReleased ==
    (airgap.phase = "done" /\ airgap.acquired) =>
        /\ airgap.removal \in {"run", "raised"}
        /\ airgap.closed

\* C31: in every host task the script is delivered and run only on a host
\* where the ability to use sudo has been verified: a host whose user may not
\* use sudo receives no script and is sent no remediation command
C31_PayloadOnlyAfterSudoVerified ==
    (remote.phase # "idle") =>
        \A h \in remote.no_sudo :
            /\ remote.host[h].delivered = "none"
            /\ remote.host[h].rc = "none"

\* the policy of the serial loop says abort after the failure of host g
AbortAfter(rx, g) ==
    /\ rx.host[g].result = "false"
    /\ ~rx.FORCE_IGNORE_ERRORS
    /\ rx.response # "y"

MaxOut == 3

\* the characters of a password and of the text a remote command prints
Alphabet == {"a", "b"}

\* sudo passwords: two characters long, the same one twice or two different
Secrets == { << "a", "a" >>, << "a", "b" >> }

\* what the remote command writes to the terminal, the echo of the typed
\* password included
Outputs == UNION { [1..n -> Alphabet] : n \in 0..MaxOut }

Stars == << "*", "*", "*" >>

IsPrefix(sub, str) ==
    /\ Len(sub) <= Len(str)
    /\ SubSeq(str, 1, Len(sub)) = sub

Contains(str, sub) ==
    \E i \in 0..(Len(str) - Len(sub)) : SubSeq(str, i + 1, i + Len(sub)) = sub

\* str.replace(old, new): the occurrences of old from left to right, none of
\* them overlapping the one before
RECURSIVE Replace(_, _, _)
Replace(str, old, new) ==
    IF str = << >> THEN << >>
    ELSE IF IsPrefix(old, str)
    THEN new \o Replace(SubSeq(str, Len(old) + 1, Len(str)), old, new)
    ELSE << Head(str) >> \o Replace(Tail(str), old, new)

\* execute_stig_remediation: what has been printed and kept after one more
\* channel.recv returned the first n characters still pending
RedactChunk(shown, pending, n, secret) ==
    shown \o Replace(SubSeq(pending, 1, n), secret, Stars)

NewWin(secret) ==
    [phase |-> "new", sudo_password |-> secret,
     ssh_client |-> FALSE, connected |-> FALSE, acquired |-> FALSE,
     remote_dir |-> FALSE, script |-> "none", remote_script_path |-> FALSE,
     pending |-> << >>, shown |-> << >>,
     interrupted |-> FALSE, removal |-> "none", closed |-> FALSE,
     ret |-> "none"]

\* rm -rf of the remote directory is sent only if transfer_stig_script got as
\* far as setting remote_script_path, and only over an open connection
cleanup_remote_files(w) ==
    IF w.remote_script_path /\ w.connected
    THEN [w EXCEPT !.removal = "run"]
    ELSE w

disconnect(w) ==
    IF w.ssh_client THEN [w EXCEPT !.connected = FALSE, !.closed = TRUE]
    ELSE w

\* run: a return, or an exception, passes through the finally clause
WinReturn(w, value) ==
    [disconnect(cleanup_remote_files(w)) EXCEPT !.phase = "done", !.ret = value]

\* run: get_connection_info, which leaves by sys.exit unless the operator
\* types "yes"
WinGetConnectionInfo ==
    /\ win.phase = "new"
    /\ \E confirm \in BOOLEAN :
          win' = IF confirm THEN [win EXCEPT !.phase = "connect"]
                 ELSE WinReturn(win, "exit")
    /\ UNCHANGED << rmvars, runvars, preflight, validator, sysctl, remote, airgap >>

WinConnect ==
    /\ win.phase = "connect"
    /\ \E ok \in BOOLEAN :
          win' = IF ok
                 THEN [win EXCEPT !.phase = "verify_sudo_access", !.ssh_client = TRUE,
                                  !.connected = TRUE, !.acquired = TRUE]
                 ELSE WinReturn([win EXCEPT !.ssh_client = TRUE], "false")
    /\ UNCHANGED << rmvars, runvars, preflight, validator, sysctl, remote, airgap >>

\* run: verify_sudo_access and check_system_info
WinVerify ==
    /\ win.phase = "verify_sudo_access"
    /\ \E ok \in BOOLEAN :
          win' = IF ok THEN [win EXCEPT !.phase = "transfer_mkdir"]
                 ELSE WinReturn(win, "false")
    /\ UNCHANGED << rmvars, runvars, preflight, validator, sysctl, remote, airgap >>

\* transfer_stig_script: mkdir -p of the remote directory
WinTransferMkdir ==
    /\ win.phase = "transfer_mkdir"
    /\ \E ok \in BOOLEAN :
          win' = IF ok THEN [win EXCEPT !.phase = "transfer_put", !.remote_dir = TRUE]
                 ELSE WinReturn(win, "false")
    /\ UNCHANGED << rmvars, runvars, preflight, validator, sysctl, remote, airgap >>

\* transfer_stig_script: sftp.put, after which remote_script_path is set
WinTransferPut ==
    /\ win.phase = "transfer_put"
    /\ \E ok \in BOOLEAN :
          win' = IF ok
                 THEN [win EXCEPT !.phase = "confirm", !.script = "put",
                                  !.remote_script_path = TRUE]
                 ELSE WinReturn([win EXCEPT !.script = "partial"], "false")
    /\ UNCHANGED << rmvars, runvars, preflight, validator, sysctl, remote, airgap >>

\* run: install_dependencies, create_pre_execution_backup, and the word
\* EXECUTE; the remote command then starts writing its output
WinConfirm ==
    /\ win.phase = "confirm"
    /\ \E execute \in BOOLEAN, out \in Outputs :
          win' = IF execute
                 THEN [win EXCEPT !.phase = "execute_stig_remediation", !.pending = out]
                 ELSE WinReturn(win, "false")
    /\ UNCHANGED << rmvars, runvars, preflight, validator, sysctl, remote, airgap >>

\* execute_stig_remediation: one channel.recv, which returns some of the
\* characters written so far
WinRecv ==
    /\ win.phase = "execute_stig_remediation"
    /\ win.pending # << >>
    /\ \E n \in 1..Len(win.pending) :
          win' = [win EXCEPT
                     !.shown = RedactChunk(win.shown, win.pending, n, win.sudo_password),
                     !.pending = SubSeq(@, n + 1, Len(@))]
    /\ UNCHANGED << rmvars, runvars, preflight, validator, sysctl, remote, airgap >>

\* execute_stig_remediation returns with the exit status; run returns it
WinExecuteDone ==
    /\ win.phase = "execute_stig_remediation"
    /\ win.pending = << >>
    /\ \E outcome \in CommandOutcomes :
          win' = WinReturn(win, IF outcome = "zero" THEN "true" ELSE "false")
    /\ UNCHANGED << rmvars, runvars, preflight, validator, sysctl, remote, airgap >>

\* Ctrl-C while run is under way: the KeyboardInterrupt handler of run, then
\* its finally clause
WinInterrupt ==
    /\ win.phase \notin {"idle", "new", "done"}
    /\ win' = WinReturn([win EXCEPT !.interrupted = TRUE,
                            !.script = IF win.phase = "transfer_put"
                                       THEN "partial" ELSE @], "false")
    /\ UNCHANGED << rmvars, runvars, preflight, validator, sysctl, remote, airgap >>

WinInit ==
    /\ RunIdle
    /\ fs = TypicalFs
    /\ RmIdle
    /\ preflight = NoUnit
    /\ validator = NoUnit
    /\ sysctl = NoUnit
    /\ remote = NoUnit
    /\ airgap = NoUnit
    /\ win \in { NewWin(secret) : secret \in Secrets }

WinNext ==
    \/ WinGetConnectionInfo
    \/ WinConnect
    \/ WinVerify
    \/ WinTransferMkdir
    \/ WinTransferPut
    \/ WinConfirm
    \/ WinRecv
    \/ WinExecuteDone
    \/ WinInterrupt

WinSpec == WinInit /\ [][WinNext]_vars

\* C34: when a run that was interrupted by the user has ended, the removal of
\* everything delivered to the target has been attempted and the connection
\* has been closed
C34_InterruptCleansUp ==
    (win.phase = "done" /\ win.interrupted) =>
        /\ win.remote_dir => win.removal = "run"
        /\ win.acquired => win.closed

\* C35: nothing that execute_stig_remediation printed and kept contains the
\* sudo password, however the output was split over the calls of recv
C35_NoSecretInOutput ==
    win.phase \in {"execute_stig_remediation", "done"} =>
        ~Contains(win.shown, win.sudo_password)

\* every manager of the catalog
AllControls == UNION { Range(Catalog[t]) : t \in 1..NumTiers }

ControlNamed(name) == CHOOSE c \in AllControls : c.name = name

\* C36: when a manager has run and its control was not applied, its failure
\* is in the error list that the next "Check for critical errors" counts, and
\* the run goes on with the next manager of the tier
C36_FailureRecordedTierContinues ==
    [][ ( /\ pc = "tiers"
          /\ hist'.executed # hist.executed
          /\ all_stig_controls' = all_stig_controls )
        => ( /\ all_errors' > all_errors
             /\ pc' = "tiers"
             /\ idx' = idx + 1 ) ]_vars

\* C37: an entry is in all_stig_controls only for a control whose changes
\* were made on the target, no control is in it twice, and the entries it
\* holds stay as they are, in their places, for the rest of the run
C37_LedgerOnlyAppliedOnce ==
    /\ [](\A i \in DOMAIN all_stig_controls :
             LET c == ControlNamed(all_stig_controls[i]) IN
             /\ TouchedFilesOf(c) \subseteq hist.touchedFiles
             /\ TouchedEntriesOf(c) \subseteq hist.touchedEntries
             /\ \A j \in DOMAIN all_stig_controls :
                   all_stig_controls[j] = all_stig_controls[i] => j = i)
    /\ [][ /\ Len(all_stig_controls') >= Len(all_stig_controls)
           /\ SubSeq(all_stig_controls', 1, Len(all_stig_controls)) = all_stig_controls ]_vars

\* C38: no step of a dry run changes a file or a directory of the target,
\* creates or changes a recovery point, or runs the post-validation,
\* whatever tiers are selected and whatever the controls return
C38_DryRunFrame ==
    [][ cfg.DRY_RUN =>
          /\ fs' = fs
          /\ storage' = storage
          /\ current_recovery_point' = current_recovery_point
          /\ hist'.createAttempted = hist.createAttempted
          /\ hist'.postval = hist.postval ]_vars

\* C39: a run that has executed every enabled tier and has passed (or
\* skipped) the post-validation returns True if and only if all_errors is
\* empty; with 1..MAX_FAILED_COMMANDS errors it has executed every control of
\* every enabled tier, has restored nothing, and returns False
C39_SuccessIffNoErrors ==
    hist.summary =>
        /\ result = (IF all_errors = 0 THEN "True" ELSE "False")
        /\ hist.postval \in {"none", "pass"}
        /\ all_errors \in 1..MAX_FAILED_COMMANDS =>
              /\ result = "False"
              /\ \A t \in 1..NumTiers :
                    TierEnabled(t) => TierControls(t) \subseteq hist.executed
              /\ hist.abort = "none"
              /\ hist.restoreAttempts = 0

C39_Witness ==
    /\ hist.summary
    /\ hist.postval = "pass"
    /\ all_errors \in 1..MAX_FAILED_COMMANDS
    /\ result = "False"

====
